---- MODULE Spec2Model ----
(***************************************************************************)
(* Model of the student finance tracker: the SearchManager                 *)
(* (src/scripts/search.js), the highlighter of the UIManager              *)
(* (src/scripts/ui.js), the StateManager (src/scripts/state.js), the      *)
(* StorageManager (src/scripts/storage.js) and the ValidationManager and  *)
(* the import and category handlers of the FinanceTracker                 *)
(* (src/unnamed/part_001).                                                 *)
(*                                                                         *)
(* JavaScript strings are sequences of one-character strings, indexed     *)
(* from 0 by the helpers below as the code indexes them.  A JavaScript    *)
(* value is a record [t, s, n]: t is the type tag ("string", "number",    *)
(* "undefined"), s the characters of a string, n the number.              *)
(***************************************************************************)
EXTENDS Integers, Sequences, FiniteSets, TLC

VARIABLES
    searchHistory,      \* this.searchHistory: the most recently used list
    lastSearchPattern,  \* this.lastSearchPattern
    lastSearchFlags,    \* this.lastSearchFlags
    call,               \* the last call: its arguments, its outcome, the state before it
    ncalls,             \* number of budgeted calls made so far
    held,               \* the array a caller holds from getSearchHistory()
    transactions,       \* StateManager: this.transactions
    categories,         \* StateManager: this.categories
    budgetCap,          \* StateManager: this.budgetCap
    now,                \* the clock: hours since 1970-01-01T00:00Z
    timezone,           \* the time zone of the session: hours east of UTC
    localStorage,       \* the four items of the browser's localStorage
    last                \* the last call on the working set or the storage

stateVars == <<transactions, categories, budgetCap, now, timezone, localStorage, last>>
vars == <<searchHistory, lastSearchPattern, lastSearchFlags, call, ncalls, held,
          transactions, categories, budgetCap, now, timezone, localStorage, last>>

----------------------------------------------------------------------------
(* Bounds *)

MaxCalls == 2        \* calls per behaviour of Spec
MaxRepeats == 3      \* repeated searches and clears per behaviour of SpecHistory
NumFresh == 12       \* distinct literal queries of SpecHistory
MaxLastIndex == 1    \* lastIndex of a matcher handed to the UIManager's highlighter

----------------------------------------------------------------------------
(* JavaScript values and strings *)

Str(s) == [t |-> "string", s |-> s, n |-> 0]
Num(n) == [t |-> "number", s |-> <<>>, n |-> n]
Undefined == [t |-> "undefined", s |-> <<>>, n |-> 0]

Max(S) == CHOOSE x \in S : \A y \in S : y <= x
Min(S) == CHOOSE x \in S : \A y \in S : x <= y

IsSpace(c) == c = " "

RECURSIVE TrimStart(_)
TrimStart(s) == IF s # <<>> /\ IsSpace(Head(s)) THEN TrimStart(Tail(s)) ELSE s

RECURSIVE TrimEnd(_)
TrimEnd(s) ==
    IF s # <<>> /\ IsSpace(s[Len(s)]) THEN TrimEnd(SubSeq(s, 1, Len(s) - 1)) ELSE s

\* trim left out
TrimMissing(s) == s

\* String.prototype.trim
Trim(s) == TrimEnd(TrimStart(s))

\* String.prototype.startsWith for a one-character prefix
StartsWith(s, c) == s # <<>> /\ s[1] = c

\* String.prototype.includes for a one-character needle
IncludesChar(s, c) == \E i \in 1..Len(s) : s[i] = c

\* indexOf(c, 1) in place of lastIndexOf(c): the first later occurrence
IndexOfLater(s, c) ==
    LET idx == {i \in 2..Len(s) : s[i] = c}
    IN  IF idx = {} THEN -1 ELSE Min(idx) - 1

\* String.prototype.lastIndexOf for a one-character needle (0-based, -1 when absent)
LastIndexOf(s, c) ==
    LET idx == {i \in 1..Len(s) : s[i] = c}
    IN  IF idx = {} THEN -1 ELSE Max(idx) - 1

\* String.prototype.substring(from, to) and substring(from), 0-based
Substring(s, from, to) == SubSeq(s, from + 1, to)
SubstringFrom(s, from) == SubSeq(s, from + 1, Len(s))

\* String.prototype.includes for a needle of several characters
Includes(s, needle) ==
    \E i \in 0..(Len(s) - Len(needle)) : SubSeq(s, i + 1, i + Len(needle)) = needle

DigitChar(d) == <<"0", "1", "2", "3", "4", "5", "6", "7", "8", "9">>[d + 1]

\* Number.prototype.toString for a non-negative integer
RECURSIVE NumberToString(_)
NumberToString(n) ==
    IF n < 10 THEN <<DigitChar(n)>>
    ELSE Append(NumberToString(n \div 10), DigitChar(n % 10))

----------------------------------------------------------------------------
(* The regular expression engine the code calls: new RegExp, test, replace. *)
(* A pattern body is a sequence of literal characters and "." wildcards;   *)
(* an unclosed "(", an unopened ")" and a leading quantifier are syntax    *)
(* errors, as is a flag letter that is unknown or repeated.                *)

ValidFlagChars == {"d", "g", "i", "m", "s", "u", "v", "y"}

FlagsOK(flags) ==
    /\ \A i \in 1..Len(flags) : flags[i] \in ValidFlagChars
    /\ \A i, j \in 1..Len(flags) : i # j => flags[i] # flags[j]
    /\ ~(IncludesChar(flags, "u") /\ IncludesChar(flags, "v"))

\* nesting depth of parentheses after the first k characters of the body
RECURSIVE ParenDepth(_, _)
ParenDepth(body, k) ==
    IF k = 0 THEN 0
    ELSE ParenDepth(body, k - 1)
         + (IF body[k] = "(" THEN 1 ELSE IF body[k] = ")" THEN -1 ELSE 0)

\* The message of the SyntaxError that new RegExp(body, flags) throws, as a
\* sequence of words; <<>> when the pattern compiles.
RegExpError(body, flags) ==
    IF ~FlagsOK(flags)
        THEN <<"Invalid", "flags", "supplied", "to", "RegExp", "constructor">>
    ELSE IF \E k \in 1..Len(body) : ParenDepth(body, k) < 0
        THEN <<"Invalid", "regular", "expression:", "Unmatched", "')'">>
    ELSE IF ParenDepth(body, Len(body)) > 0
        THEN <<"Invalid", "regular", "expression:", "Unterminated", "group">>
    ELSE IF body # <<>> /\ body[1] \in {"*", "+", "?"}
        THEN <<"Invalid", "regular", "expression:", "Nothing", "to", "repeat">>
    ELSE <<>>

NullRegex == [ok |-> FALSE, source |-> <<>>, flags |-> <<>>]
Regex(body, flags) == [ok |-> TRUE, source |-> body, flags |-> flags]

HasFlag(re, f) == IncludesChar(re.flags, f)

Lower(c) ==
    CASE c = "A" -> "a"
      [] c = "B" -> "b"
      [] c = "C" -> "c"
      [] OTHER -> c

CharMatch(re, e, c) ==
    \/ e = "."
    \/ e = c
    \/ HasFlag(re, "i") /\ Lower(e) = Lower(c)

\* the pattern matches the text at 0-based position p
MatchAt(re, text, p) ==
    /\ p + Len(re.source) <= Len(text)
    /\ \A k \in 1..Len(re.source) : CharMatch(re, re.source[k], text[p + k])

\* RegExp.prototype.exec: a global or sticky matcher starts at lastIndex and
\* moves it; any other matcher starts at 0 and leaves lastIndex alone.
RegExpExec(re, text, lastIndex) ==
    LET moves == HasFlag(re, "g") \/ HasFlag(re, "y")
        start == IF moves THEN lastIndex ELSE 0
        cands == IF start > Len(text) THEN {}
                 ELSE IF HasFlag(re, "y")
                     THEN {p \in {start} : MatchAt(re, text, p)}
                 ELSE {p \in start..Len(text) : MatchAt(re, text, p)}
    IN  IF cands = {}
        THEN [found |-> FALSE, index |-> 0, end |-> 0,
              lastIndex |-> IF moves THEN 0 ELSE lastIndex]
        ELSE LET p == Min(cands)
             IN  [found |-> TRUE, index |-> p, end |-> p + Len(re.source),
                  lastIndex |-> IF moves THEN p + Len(re.source) ELSE lastIndex]

\* RegExp.prototype.test
RegExpTest(re, text, lastIndex) ==
    LET r == RegExpExec(re, text, lastIndex)
    IN  [found |-> r.found, lastIndex |-> r.lastIndex]

MarkOpen == <<"<", "m", "a", "r", "k", ">">>
MarkClose == <<"<", "/", "m", "a", "r", "k", ">">>

\* the replacer callback of highlightMatches: (match) => `<mark>${match}</mark>`
WrapMark(match) == MarkOpen \o match \o MarkClose

\* the loop of String.prototype.replace with a global matcher: `emitted`
\* characters of the text are already in the output
RECURSIVE ReplaceLoop(_, _, _, _)
ReplaceLoop(re, text, lastIndex, emitted) ==
    LET r == RegExpExec(re, text, lastIndex)
    IN  IF ~r.found THEN SubSeq(text, emitted + 1, Len(text))
        ELSE SubSeq(text, emitted + 1, r.index)
             \o WrapMark(SubSeq(text, r.index + 1, r.end))
             \o ReplaceLoop(re, text,
                            IF r.end = r.index THEN r.end + 1 ELSE r.end, r.end)

\* String.prototype.replace(regex, replacer): every match of a global
\* matcher (scanning from 0), the first match of any other
RegExpReplace(re, text, lastIndex) ==
    IF HasFlag(re, "g") THEN ReplaceLoop(re, text, 0, 0)
    ELSE LET r == RegExpExec(re, text, lastIndex)
         IN  IF ~r.found THEN text
             ELSE SubSeq(text, 1, r.index)
                  \o WrapMark(SubSeq(text, r.index + 1, r.end))
                  \o SubSeq(text, r.end + 1, Len(text))

----------------------------------------------------------------------------
(* SearchManager *)

maxHistorySize == 10

\* compileRegex(pattern, flags): the matcher it returns (NullRegex for
\* null), whether it assigned the last-used fields, and the values assigned.
compileRegex(pattern, flags) ==
    IF pattern.t # "string" \/ pattern.s = <<>>
    THEN [regex |-> NullRegex, setLast |-> FALSE, pattern |-> <<>>, flags |-> <<>>]
    ELSE
    LET trimmed == Trim(pattern.s)
        lastSlash == LastIndexOf(trimmed, "/")
        delimited == /\ StartsWith(trimmed, "/") /\ IncludesChar(trimmed, "/")
                     /\ lastSlash > 0
        patternFlags == IF delimited THEN SubstringFrom(trimmed, lastSlash + 1) ELSE <<>>
        cleanPattern == IF delimited THEN Substring(trimmed, 1, lastSlash) ELSE trimmed
        useFlags == IF delimited /\ patternFlags # <<>> THEN patternFlags ELSE flags
    IN  [regex |-> IF RegExpError(cleanPattern, useFlags) = <<>>
                   THEN Regex(cleanPattern, useFlags) ELSE NullRegex,
         setLast |-> TRUE, pattern |-> cleanPattern, flags |-> useFlags]

\* testPattern without the reset of regex.lastIndex
testPatternNoReset(regex, text, lastIndex) ==
    IF ~regex.ok \/ text.t # "string"
    THEN [found |-> FALSE, lastIndex |-> lastIndex]
    ELSE RegExpTest(regex, text.s, lastIndex)

\* testPattern(regex, text): the answer and the matcher's lastIndex afterwards
testPattern(regex, text, lastIndex) ==
    IF ~regex.ok \/ text.t # "string"
    THEN [found |-> FALSE, lastIndex |-> lastIndex]
    ELSE RegExpTest(regex, text.s, 0)

\* transaction.amount.toString(): a TypeError when the amount is absent
ToStringThrows(v) == v.t = "undefined"
ToStringOf(v) == IF v.t = "number" THEN Str(NumberToString(v.n)) ELSE v

\* the filter callback of searchTransactions on one record: "keep", "drop"
\* or "throw", and the matcher's lastIndex afterwards
MatchRecord(regex, tx, lastIndex) ==
    LET r1 == testPattern(regex, tx.description, lastIndex)
        r2 == testPattern(regex, tx.category, r1.lastIndex)
        r3 == testPattern(regex, ToStringOf(tx.amount), r2.lastIndex)
        r4 == testPattern(regex, tx.date, r3.lastIndex)
    IN  IF r1.found THEN [kind |-> "keep", lastIndex |-> r1.lastIndex]
        ELSE IF r2.found THEN [kind |-> "keep", lastIndex |-> r2.lastIndex]
        ELSE IF ToStringThrows(tx.amount) THEN [kind |-> "throw", lastIndex |-> r2.lastIndex]
        ELSE IF r3.found THEN [kind |-> "keep", lastIndex |-> r3.lastIndex]
        ELSE IF r4.found THEN [kind |-> "keep", lastIndex |-> r4.lastIndex]
        ELSE [kind |-> "drop", lastIndex |-> r4.lastIndex]

\* the loop of transactions.filter(...) from the i-th record on: `kept` holds
\* the records kept so far
RECURSIVE FilterFrom(_, _, _, _, _)
FilterFrom(regex, txs, i, lastIndex, kept) ==
    IF i > Len(txs) THEN [threw |-> FALSE, list |-> kept]
    ELSE IF MatchRecord(regex, txs[i], lastIndex).kind = "throw"
        THEN [threw |-> TRUE, list |-> <<>>]
    ELSE FilterFrom(regex, txs, i + 1,
                    MatchRecord(regex, txs[i], lastIndex).lastIndex,
                    IF MatchRecord(regex, txs[i], lastIndex).kind = "keep"
                    THEN Append(kept, txs[i]) ELSE kept)

\* transactions.filter(...): the records kept, or the throw of the callback
FilterTransactions(regex, txs, lastIndex) == FilterFrom(regex, txs, 1, lastIndex, <<>>)

\* the displayPattern of a history entry
DisplayPattern(pattern, flags) ==
    IF IncludesChar(flags, "i") THEN <<"/">> \o pattern \o <<"/", "i">>
    ELSE <<"/">> \o pattern \o <<"/">>

\* addToHistory that caps with slice(-maxHistorySize): the newest entry goes
addToHistoryKeepLast(history, pattern, flags) ==
    LET searchEntry == [pattern |-> pattern, flags |-> flags,
                        displayPattern |-> DisplayPattern(pattern, flags)]
        IsOther(entry) == entry.pattern # pattern \/ entry.flags # flags
        unshifted == <<searchEntry>> \o SelectSeq(history, IsOther)
    IN  IF Len(unshifted) > maxHistorySize
        THEN SubSeq(unshifted, Len(unshifted) - maxHistorySize + 1, Len(unshifted))
        ELSE unshifted

\* addToHistory without the removal of the duplicate
addToHistoryNoDedupe(history, pattern, flags) ==
    LET searchEntry == [pattern |-> pattern, flags |-> flags,
                        displayPattern |-> DisplayPattern(pattern, flags)]
        unshifted == <<searchEntry>> \o history
    IN  IF Len(unshifted) > maxHistorySize
        THEN SubSeq(unshifted, 1, maxHistorySize)
        ELSE unshifted

\* addToHistory(pattern, flags): the new value of this.searchHistory.  The
\* timestamp of an entry is read by no operation and is left out.
addToHistory(history, pattern, flags) ==
    LET searchEntry == [pattern |-> pattern, flags |-> flags,
                        displayPattern |-> DisplayPattern(pattern, flags)]
        IsOther(entry) == entry.pattern # pattern \/ entry.flags # flags
        unshifted == <<searchEntry>> \o SelectSeq(history, IsOther)
    IN  IF Len(unshifted) > maxHistorySize
        THEN SubSeq(unshifted, 1, maxHistorySize)
        ELSE unshifted

----------------------------------------------------------------------------
(* The record of the last call *)

NoRet == [kind |-> "none", list |-> <<>>, msg |-> <<>>, regex |-> NullRegex,
          html |-> <<>>, isValid |-> FALSE, suggestion |-> "",
          error |-> "", cited |-> <<>>, sources |-> <<>>]

Pre == [searchHistory |-> searchHistory,
        lastSearchPattern |-> lastSearchPattern,
        lastSearchFlags |-> lastSearchFlags]

NoArgs == [pattern |-> Undefined, flags |-> <<>>, caseInsensitive |-> FALSE,
           transactions |-> <<>>, text |-> Undefined, regex |-> NullRegex,
           lastIndex |-> 0]

----------------------------------------------------------------------------
(* Dates.  An instant (the getTime() of a JavaScript Date) is counted in   *)
(* hours since 1970-01-01T00:00Z; a time zone is its offset in hours east  *)
(* of UTC, without daylight saving.                                        *)

\* a calendar date (month 1..12) as written in a "YYYY-MM-DD" string; ok is
\* FALSE for a string that new Date() cannot parse
Date(y, m, d) == [ok |-> TRUE, y |-> y, m |-> m, d |-> d]
InvalidDate == [ok |-> FALSE, y |-> 0, m |-> 0, d |-> 0]

\* days from 1970-01-01 to the d-th day of month m (1..12) of year y
DayNumber(y, m, d) ==
    LET LeapsBefore(x) == (x - 1) \div 4 - (x - 1) \div 100 + (x - 1) \div 400
        IsLeap == (y % 4 = 0 /\ y % 100 # 0) \/ y % 400 = 0
        daysBeforeMonth == <<0, 31, 59, 90, 120, 151, 181, 212, 243, 273, 304, 334>>[m]
                             + (IF IsLeap /\ m > 2 THEN 1 ELSE 0)
    IN  365 * (y - 1970) + LeapsBefore(y) - LeapsBefore(1970) + daysBeforeMonth + d - 1

\* new Date("YYYY-MM-DD").getTime(): midnight UTC of the date
DateParse(date) == DayNumber(date.y, date.m, date.d) * 24

\* new Date(year, monthIndex, day).getTime(): midnight local time; a month
\* index outside 0..11 carries into the year
DateLocal(year, monthIndex, day, tz) ==
    DayNumber(year + (monthIndex \div 12), (monthIndex % 12) + 1, day) * 24 - tz

\* getFullYear() and getMonth() (0..11) of an instant, in local time
GetFullYear(instant, tz) ==
    CHOOSE y \in 1970..2099 :
        /\ DayNumber(y, 1, 1) * 24 <= instant + tz
        /\ instant + tz < DayNumber(y + 1, 1, 1) * 24

GetMonth(instant, tz) ==
    LET y == GetFullYear(instant, tz)
    IN  CHOOSE m \in 0..11 :
            /\ DateLocal(y, m, 1, tz) <= instant
            /\ instant < DateLocal(y, m + 1, 1, tz)

----------------------------------------------------------------------------
(* The state after construction of the other components *)

Null == [t |-> "null", s |-> <<>>, n |-> 0]

\* the categories of a new StateManager, and StorageManager.DEFAULT_CATEGORIES
DefaultCategories ==
    << <<"F", "o", "o", "d">>, <<"B", "o", "o", "k", "s">>,
       <<"T", "r", "a", "n", "s", "p", "o", "r", "t">>,
       <<"E", "n", "t", "e", "r", "t", "a", "i", "n", "m", "e", "n", "t">>,
       <<"F", "e", "e", "s">>, <<"O", "t", "h", "e", "r">> >>

\* StorageManager.DEFAULT_SETTINGS; the exchange rates are read by no
\* operation of the model and are left out
DefaultSettings == [baseCurrency |-> "USD", theme |-> "light"]

\* localStorage with none of the four items: getItem returns null for an
\* item that is not present.  The text of an item that is present either
\* parses to the value (json = "value"), or does not parse (json =
\* "corrupt"), or parses to a value of another kind than the one its reader
\* expects (json = "other"); `mistyped` holds the positions of a stored
\* array whose element is not an object or has a field of another type
\* than the reader requires.
EmptyStorage ==
    [transactions |-> [present |-> FALSE, value |-> <<>>, json |-> "value", mistyped |-> {}],
     categories |-> [present |-> FALSE, value |-> <<>>, json |-> "value", mistyped |-> {}],
     settings |-> [present |-> FALSE, value |-> DefaultSettings, json |-> "value",
                   mistyped |-> {}],
     budgetCap |-> [present |-> FALSE, value |-> 0, json |-> "value", mistyped |-> {}]]

\* a transaction record; createdAt and updatedAt are instants of the clock,
\* 0 when the field is absent
Transaction(id, description, amount, category, date, createdAt, updatedAt) ==
    [id |-> id, description |-> description, amount |-> amount,
     category |-> category, date |-> date,
     createdAt |-> createdAt, updatedAt |-> updatedAt]

\* a field that a partial record (the updates of updateTransaction) lacks
NoUpdates == [has |-> {}, tx |-> Transaction(<<>>, <<>>, 0, <<>>, InvalidDate, 0, 0)]

\* an import payload: the keys it has and their values
NoPayload == [has |-> {}, transactions |-> <<>>, categories |-> <<>>,
              settings |-> DefaultSettings, budgetCap |-> Undefined]

NoStats == [budget |-> [present |-> FALSE, cap |-> 0, spent |-> 0, remaining |-> 0,
                        percentage |-> [num |-> 0, den |-> 1]],
            trends |-> <<>>]

PreState == [transactions |-> transactions, categories |-> categories,
             budgetCap |-> budgetCap, localStorage |-> localStorage]

\* the record of a call on the working set or on the storage: its arguments,
\* whether it reported success, the state before it and the time of it
NoLast == [op |-> "constructor", ok |-> TRUE, id |-> <<>>, tx |-> NoUpdates,
           name |-> <<>>, list |-> <<>>, payload |-> NoPayload, fails |-> {},
           stats |-> NoStats, at |-> 0,
           prev |-> [op |-> "none", ok |-> TRUE], requests |-> <<>>,
           pre |-> [transactions |-> <<>>, categories |-> DefaultCategories,
                    budgetCap |-> Null, localStorage |-> EmptyStorage]]

\* the state after construction, in a session that starts at
\* 2025-03-10T12:00Z in the time zone UTC
Init ==
    /\ searchHistory = <<>>
    /\ lastSearchPattern = <<>>
    /\ lastSearchFlags = <<"i">>
    /\ call = [op |-> "constructor", args |-> NoArgs, ret |-> NoRet,
               pre |-> [searchHistory |-> <<>>, lastSearchPattern |-> <<>>,
                        lastSearchFlags |-> <<"i">>]]
    /\ ncalls = 0
    /\ held = <<>>
    /\ transactions = <<>>
    /\ categories = DefaultCategories
    /\ budgetCap = Null
    /\ now = DateParse(Date(2025, 3, 10)) + 12
    /\ timezone = 0
    /\ localStorage = EmptyStorage
    /\ last = NoLast

----------------------------------------------------------------------------
(* Operations of the SearchManager *)

Falsy(v) == v.t = "undefined" \/ (v.t = "string" /\ v.s = <<>>)

SearchFlags(caseInsensitive) == IF caseInsensitive THEN <<"g", "i">> ELSE <<"g">>

InvalidRegexMsg == <<"Search", "failed:", "Invalid", "regex", "pattern">>
TypeErrorMsg == <<"Search", "failed:", "Cannot", "read", "properties", "of", "undefined">>

\* addToHistory called before the matcher is checked
recordSearchUnchecked(history, regex, pattern, flags) ==
    addToHistory(history, pattern, flags)

\* searchTransactions, after the compilation: a null matcher throws before
\* addToHistory is reached
recordSearch(history, regex, pattern, flags) ==
    IF ~regex.ok THEN history ELSE addToHistory(history, pattern, flags)

\* searchTransactions(transactions, pattern, caseInsensitive)
searchTransactions(txs, pattern, caseInsensitive) ==
    LET flags == SearchFlags(caseInsensitive)
        c == compileRegex(pattern, flags)
        f == FilterTransactions(c.regex, txs, 0)
        args == [NoArgs EXCEPT !.pattern = pattern, !.flags = flags,
                               !.caseInsensitive = caseInsensitive,
                               !.transactions = txs]
    IN  IF Falsy(pattern) \/ Trim(pattern.s) = <<>>
        THEN /\ call' = [op |-> "searchTransactions", args |-> args, pre |-> Pre,
                         ret |-> [NoRet EXCEPT !.kind = "list", !.list = txs]]
             /\ UNCHANGED <<searchHistory, lastSearchPattern, lastSearchFlags>>
        ELSE /\ lastSearchPattern' = IF c.setLast THEN c.pattern ELSE lastSearchPattern
             /\ lastSearchFlags' = IF c.setLast THEN c.flags ELSE lastSearchFlags
             /\ searchHistory' = recordSearch(searchHistory, c.regex, pattern.s, flags)
             /\ call' = [op |-> "searchTransactions", args |-> args, pre |-> Pre,
                         ret |-> IF ~c.regex.ok
                                 THEN [NoRet EXCEPT !.kind = "throw",
                                                    !.msg = InvalidRegexMsg]
                                 ELSE IF f.threw
                                 THEN [NoRet EXCEPT !.kind = "throw",
                                                    !.msg = TypeErrorMsg]
                                 ELSE [NoRet EXCEPT !.kind = "list",
                                                    !.list = f.list,
                                                    !.regex = c.regex]]

\* compileRegex(pattern, flags) called on its own
CompileRegex(pattern, flags) ==
    LET c == compileRegex(pattern, flags)
    IN  /\ lastSearchPattern' = IF c.setLast THEN c.pattern ELSE lastSearchPattern
        /\ lastSearchFlags' = IF c.setLast THEN c.flags ELSE lastSearchFlags
        /\ call' = [op |-> "compileRegex", pre |-> Pre,
                    args |-> [NoArgs EXCEPT !.pattern = pattern, !.flags = flags],
                    ret |-> IF c.regex.ok
                            THEN [NoRet EXCEPT !.kind = "regex", !.regex = c.regex]
                            ELSE [NoRet EXCEPT !.kind = "null"]]
        /\ UNCHANGED searchHistory

\* getPatternSuggestion(errorMessage): the first known substring decides
getPatternSuggestion(errorMessage) ==
    IF Includes(errorMessage, <<"Invalid", "character", "class">>)
        THEN "Check character classes like [a-z] for proper syntax"
    ELSE IF Includes(errorMessage, <<"Unterminated", "group">>)
        THEN "Make sure all parentheses are properly closed"
    ELSE IF Includes(errorMessage, <<"Invalid", "escape", "sequence">>)
        THEN "Use double backslashes for literal backslashes"
    ELSE IF Includes(errorMessage, <<"Invalid", "group">>)
        THEN "Check that capture groups are properly formed"
    ELSE IF Includes(errorMessage, <<"Invalid", "quantifier">>)
        THEN "Quantifiers like *, +, ? must follow a character or group"
    ELSE "Check regex syntax and try a simpler pattern"

\* The message of an exception that reaches the catch of validatePattern:
\* compileRegex catches the engine's SyntaxError itself and returns null,
\* and test raises nothing, so none does.
ValidateCaught(pattern, flags) == <<>>

\* validatePattern(pattern, flags): the result object; suggestion "" is an
\* absent suggestion
validatePattern(pattern, flags) ==
    LET c == compileRegex(pattern, flags)
        caught == ValidateCaught(pattern, flags)
    IN  IF caught # <<>>
        THEN [NoRet EXCEPT !.kind = "validation", !.isValid = FALSE, !.msg = caught,
                           !.suggestion = getPatternSuggestion(caught)]
        ELSE IF ~c.regex.ok
        THEN [NoRet EXCEPT !.kind = "validation", !.isValid = FALSE,
                           !.msg = <<"Invalid", "pattern", "syntax">>]
        ELSE [NoRet EXCEPT !.kind = "validation", !.isValid = TRUE,
                           !.regex = c.regex]

ValidatePattern(pattern, flags) ==
    LET c == compileRegex(pattern, flags)
    IN  /\ lastSearchPattern' = IF c.setLast THEN c.pattern ELSE lastSearchPattern
        /\ lastSearchFlags' = IF c.setLast THEN c.flags ELSE lastSearchFlags
        /\ call' = [op |-> "validatePattern", pre |-> Pre,
                    args |-> [NoArgs EXCEPT !.pattern = pattern, !.flags = flags],
                    ret |-> validatePattern(pattern, flags)]
        /\ UNCHANGED searchHistory

\* clearSearchHistory()
ClearSearchHistory ==
    /\ searchHistory' = <<>>
    /\ call' = [op |-> "clearSearchHistory", args |-> NoArgs, pre |-> Pre, ret |-> NoRet]
    /\ UNCHANGED <<lastSearchPattern, lastSearchFlags>>

----------------------------------------------------------------------------
(* Highlighting *)

EscapeChar(c) ==
    CASE c = "&" -> <<"&", "a", "m", "p", ";">>
      [] c = "<" -> <<"&", "l", "t", ";">>
      [] c = ">" -> <<"&", "g", "t", ";">>
      [] c = "\"" -> <<"&", "q", "u", "o", "t", ";">>
      [] c = "'" -> <<"&", "#", "0", "3", "9", ";">>
      [] OTHER -> <<c>>

RECURSIVE EscapeSeq(_)
EscapeSeq(s) == IF s = <<>> THEN <<>> ELSE EscapeChar(Head(s)) \o EscapeSeq(Tail(s))

\* escapeHtml(unsafe), the same in SearchManager and UIManager
escapeHtml(unsafe) == IF unsafe.t # "string" THEN <<>> ELSE EscapeSeq(unsafe.s)

\* SearchManager.highlightMatches(text, regex)
highlightMatches(text, regex) ==
    IF ~regex.ok \/ Falsy(text) \/ text.t # "string"
    THEN escapeHtml(text)
    ELSE RegExpReplace(regex, escapeHtml(text), 0)

\* UIManager.highlightMatches(text, regex): no reset of regex.lastIndex
uiHighlightMatches(text, regex, lastIndex) ==
    IF ~regex.ok \/ Falsy(text)
    THEN escapeHtml(text)
    ELSE RegExpReplace(regex, escapeHtml(text), lastIndex)

HighlightMatches(text, regex, lastIndex) ==
    /\ call' = [op |-> "highlightMatches", pre |-> Pre,
                args |-> [NoArgs EXCEPT !.text = text, !.regex = regex,
                                        !.lastIndex = lastIndex],
                ret |-> [NoRet EXCEPT !.kind = "html",
                                      !.html = highlightMatches(text, regex)]]
    /\ UNCHANGED <<searchHistory, lastSearchPattern, lastSearchFlags>>

UIHighlightMatches(text, regex, lastIndex) ==
    /\ call' = [op |-> "uiHighlightMatches", pre |-> Pre,
                args |-> [NoArgs EXCEPT !.text = text, !.regex = regex,
                                        !.lastIndex = lastIndex],
                ret |-> [NoRet EXCEPT !.kind = "html",
                                      !.html = uiHighlightMatches(text, regex, lastIndex)]]
    /\ UNCHANGED <<searchHistory, lastSearchPattern, lastSearchFlags>>

----------------------------------------------------------------------------
(* Inputs *)

Tx(description, category, amount, date) ==
    [description |-> description, category |-> category,
     amount |-> amount, date |-> date]

TxLunch == Tx(Str(<<"A", "b">>), Str(<<"b">>), Num(12), Str(<<"2", "5">>))
TxAmp == Tx(Str(<<"b", "&">>), Str(<<"c">>), Num(5), Str(<<"2", "5">>))
TxNoAmount == Tx(Str(<<"c">>), Str(<<"c">>), Undefined, Str(<<"a">>))
TxNoDescription == Tx(Undefined, Str(<<"a">>), Num(5), Undefined)

TransactionLists ==
    { <<>>,
      <<TxAmp, TxNoDescription, TxLunch>>,
      <<TxLunch, TxNoAmount>>,
      <<TxNoAmount>> }

Queries ==
    { Undefined, Str(<<>>), Str(<<" ">>),
      Str(<<"a">>), Str(<<" ", "a", " ">>), Str(<<"2">>), Str(<<"c">>),
      Str(<<"(", "a">>), Str(<<"*">>),
      Str(<<"/", "a", "/", "y">>), Str(<<"/", "a", "/">>), Str(<<"/", "a">>),
      Str(<<"/", "a", "/", "b", "/", "i">>), Str(<<"/", "a", "/", "z">>) }

FlagArgs == { <<"i">>, <<"g", "g">> }

Texts ==
    { Undefined, Num(5), Str(<<>>), Str(<<"A", "b">>), Str(<<"a", "&">>),
      Str(<<"<", "a", ">">>), Str(<<"\"", "'">>), Str(<<"&", "a", "m", "p", ";">>) }

Matchers ==
    { NullRegex,
      Regex(<<"a">>, <<"g", "i">>), Regex(<<"a">>, <<"i">>), Regex(<<"a">>, <<"y">>),
      Regex(<<"&">>, <<"g">>), Regex(<<"<">>, <<"g">>), Regex(<<"t">>, <<"g">>),
      Regex(<<>>, <<"g">>), Regex(<<".">>, <<"g", "y">>) }

----------------------------------------------------------------------------
(* Specification: any calls, in any order, MaxCalls of them *)

Budget(A) ==
    ncalls < MaxCalls /\ A /\ ncalls' = ncalls + 1 /\ UNCHANGED <<held, stateVars>>

DoSearch ==
    \E txs \in TransactionLists, q \in Queries, ci \in BOOLEAN :
        Budget(searchTransactions(txs, q, ci))

DoCompile == \E q \in Queries, f \in FlagArgs : Budget(CompileRegex(q, f))

DoValidate == \E q \in Queries, f \in FlagArgs : Budget(ValidatePattern(q, f))

DoClear == Budget(ClearSearchHistory)

Next == DoSearch \/ DoCompile \/ DoValidate \/ DoClear

Spec == Init /\ [][Next]_vars

----------------------------------------------------------------------------
(* Specification of the highlighters: they read and write no field of the  *)
(* SearchManager, so every call starts from the same state.                *)

DoHighlight ==
    \E t \in Texts, re \in Matchers :
        HighlightMatches(t, re, 0) /\ UNCHANGED <<ncalls, held, stateVars>>

DoUIHighlight ==
    \E t \in Texts, re \in Matchers, li \in 0..MaxLastIndex :
        UIHighlightMatches(t, re, li) /\ UNCHANGED <<ncalls, held, stateVars>>

NextHighlight == DoHighlight \/ DoUIHighlight

SpecHighlight == Init /\ [][NextHighlight]_vars

----------------------------------------------------------------------------
(* Specification of the history: NumFresh distinct literal queries, each   *)
(* searched for the first time in the order of their numbers, and          *)
(* MaxRepeats repeated searches or clears in between.                      *)

HistoryTransactions == <<TxLunch, TxAmp>>

\* the k-th distinct (pattern, flags) pair: "1" with gi, "1" with g, "2" with gi, ...
FreshPattern(k) == NumberToString((k + 1) \div 2)
FreshCaseInsensitive(k) == k % 2 = 1

IsFresh(k, entry) ==
    entry.pattern = FreshPattern(k) /\ entry.flags = SearchFlags(FreshCaseInsensitive(k))

\* the number of the next pair never searched since the last clear
NextFresh ==
    LET used == {k \in 1..NumFresh :
                    \E i \in 1..Len(searchHistory) : IsFresh(k, searchHistory[i])}
    IN  IF used = {} THEN 1 ELSE Max(used) + 1

RepeatPositions ==
    IF searchHistory = <<>> THEN {}
    ELSE {1, (Len(searchHistory) + 1) \div 2, Len(searchHistory)}

SearchFresh ==
    /\ NextFresh <= NumFresh
    /\ searchTransactions(HistoryTransactions, Str(FreshPattern(NextFresh)),
                          FreshCaseInsensitive(NextFresh))
    /\ UNCHANGED <<ncalls, held, stateVars>>

SearchRepeat ==
    /\ ncalls < MaxRepeats
    /\ \E p \in RepeatPositions :
          searchTransactions(HistoryTransactions, Str(searchHistory[p].pattern),
                             IncludesChar(searchHistory[p].flags, "i"))
    /\ ncalls' = ncalls + 1
    /\ UNCHANGED <<held, stateVars>>

ClearHistory ==
    /\ ncalls < MaxRepeats
    /\ ClearSearchHistory
    /\ ncalls' = ncalls + 1
    /\ UNCHANGED <<held, stateVars>>

NextHistory == SearchFresh \/ SearchRepeat \/ ClearHistory

SpecHistory == Init /\ [][NextHistory]_vars

----------------------------------------------------------------------------
(* Vocabulary of the properties *)

IsSearch == call.op = "searchTransactions"

\* the query is absent, empty or made of whitespace only
BlankQuery(q) == q.t # "string" \/ \A i \in 1..Len(q.s) : q.s[i] = " "

\* the query of the last call compiles with the flags of the last call
Compiles == compileRegex(call.args.pattern, call.args.flags).regex.ok

\* the last call is a search whose query compiled, so that it was recorded
Recorded == IsSearch /\ ~BlankQuery(call.args.pattern) /\ Compiles

PairOf(entry) == [pattern |-> entry.pattern, flags |-> entry.flags]

SearchedPair(c) == [pattern |-> c.args.pattern.s, flags |-> c.args.flags]

InHistory(pair, history) == \E i \in 1..Len(history) : PairOf(history[i]) = pair

\* the history without its entries for the pair
Without(history, pair) ==
    LET keep == {i \in 1..Len(history) : PairOf(history[i]) # pair}
        nth(k) == CHOOSE i \in keep : Cardinality({j \in keep : j < i}) = k - 1
    IN  [k \in 1..Cardinality(keep) |-> history[nth(k)]]

\* the matcher matches the field: somewhere in a string, at the start of it
\* when the matcher is sticky; never in a value that is not a string
FieldMatches(regex, v) ==
    /\ v.t = "string"
    /\ \E p \in 0..Len(v.s) :
          /\ HasFlag(regex, "y") => p = 0
          /\ MatchAt(regex, v.s, p)

AmountText(tx) ==
    IF tx.amount.t = "number" THEN Str(NumberToString(tx.amount.n)) ELSE tx.amount

RecordMatches(regex, tx) ==
    \/ FieldMatches(regex, tx.description)
    \/ FieldMatches(regex, tx.category)
    \/ FieldMatches(regex, AmountText(tx))
    \/ FieldMatches(regex, tx.date)

MatchingSublist(regex, txs) ==
    LET keep(tx) == RecordMatches(regex, tx) IN SelectSeq(txs, keep)

----------------------------------------------------------------------------
(* C1: the search history never holds more than 10 entries; a search for a *)
(* pair that is not in a full history puts the new entry at the front and  *)
(* drops the last entry, the least recently used one.                      *)
C1_HistoryCapped ==
    /\ Len(searchHistory) <= 10
    /\ (Recorded /\ ~InHistory(SearchedPair(call), call.pre.searchHistory))
        => /\ PairOf(Head(searchHistory)) = SearchedPair(call)
           /\ Tail(searchHistory) =
                IF Len(call.pre.searchHistory) = 10
                THEN SubSeq(call.pre.searchHistory, 1, 9)
                ELSE call.pre.searchHistory

C1_Evicted ==
    /\ Recorded
    /\ Len(call.pre.searchHistory) = 10
    /\ ~InHistory(SearchedPair(call), call.pre.searchHistory)
    /\ Len(searchHistory) = 10

(* C2: a search for a (pattern, flags) pair that is already in the history *)
(* leaves exactly one entry for the pair, at the front, and the other      *)
(* entries in their order; a search repeated with the same arguments       *)
(* returns what the first one returned.                                    *)
C2_Step ==
    (/\ call'.op = "searchTransactions"
     /\ ~BlankQuery(call'.args.pattern)
     /\ compileRegex(call'.args.pattern, call'.args.flags).regex.ok
     /\ InHistory(SearchedPair(call'), searchHistory))
    => /\ PairOf(Head(searchHistory')) = SearchedPair(call')
       /\ Cardinality({i \in 1..Len(searchHistory') :
                          PairOf(searchHistory'[i]) = SearchedPair(call')}) = 1
       /\ Tail(searchHistory') = Without(searchHistory, SearchedPair(call'))
       /\ (call.op = "searchTransactions" /\ call.args = call'.args)
            => call'.ret = call.ret

C2_RepeatedSearch == [][C2_Step]_vars

C2_SearchedTwice ==
    /\ Recorded
    /\ Len(call.pre.searchHistory) >= 3
    /\ PairOf(Head(call.pre.searchHistory)) = SearchedPair(call)
    /\ Len(searchHistory) = Len(call.pre.searchHistory)

(* C3: a search whose query does not compile raises "Search failed" and    *)
(* leaves the history as it was.                                           *)
C3_InvalidPatternRaises ==
    (IsSearch /\ ~BlankQuery(call.args.pattern) /\ ~Compiles)
    => /\ call.ret.kind = "throw"
       /\ SubSeq(call.ret.msg, 1, 2) = <<"Search", "failed:">>
       /\ searchHistory = call.pre.searchHistory

C3_RaisedWithHistory ==
    /\ IsSearch
    /\ call.args.pattern = Str(<<"(", "a">>)
    /\ call.ret.kind = "throw"
    /\ call.pre.searchHistory # <<>>

(* C4: a search with an empty or whitespace-only query returns the input   *)
(* list, the same records in the same order.                               *)
C4_BlankQueryReturnsInput ==
    (IsSearch /\ call.args.pattern.t = "string" /\ BlankQuery(call.args.pattern))
    => /\ call.ret.kind = "list"
       /\ call.ret.list = call.args.transactions

C4_WhitespaceQuery ==
    /\ IsSearch
    /\ call.args.pattern = Str(<<" ">>)
    /\ Len(call.args.transactions) >= 2
    /\ call.ret.list = call.args.transactions

C6_AbsentFieldNoRaise ==
    Recorded
    => /\ call.ret.kind # "throw"
       /\ call.ret.list =
            MatchingSublist(compileRegex(call.args.pattern, call.args.flags).regex,
                            call.args.transactions)

(* C7: a trimmed pattern that begins with "/" and has a later "/" is      *)
(* split at its last "/": the body is what lies between, the flags are     *)
(* what follows when something follows and the default flags otherwise;    *)
(* any other pattern is compiled whole with the default flags.             *)
C7_SelfDelimited ==
    (/\ call.op \in {"compileRegex", "validatePattern", "searchTransactions"}
     /\ ~BlankQuery(call.args.pattern))
    => LET t == Trim(call.args.pattern.s)
           later == {j \in 2..Len(t) : t[j] = "/"}
           delimited == t[1] = "/" /\ later # {}
           body == IF delimited THEN SubSeq(t, 2, Max(later) - 1) ELSE t
           flags == IF delimited /\ Max(later) < Len(t)
                    THEN SubSeq(t, Max(later) + 1, Len(t))
                    ELSE call.args.flags
       IN  /\ lastSearchPattern = body
           /\ lastSearchFlags = flags
           /\ Compiles <=> RegExpError(body, flags) = <<>>
           /\ (call.op = "compileRegex" /\ call.ret.kind = "regex")
                => call.ret.regex = Regex(body, flags)

C7_BodyWithSlash ==
    /\ call.op = "compileRegex"
    /\ call.args.pattern = Str(<<"/", "a", "/", "b", "/", "i">>)
    /\ call.ret.kind = "regex"
    /\ call.ret.regex.source = <<"a", "/", "b">>
    /\ call.ret.regex.flags = <<"i">>

(* C8: the last-used pattern and flags are those of the most recent        *)
(* successful compilation: a compilation that fails leaves them unchanged. *)
C8_FailedCompileKeepsLastUsed ==
    (/\ call.op \in {"compileRegex", "validatePattern", "searchTransactions"}
     /\ call.op = "searchTransactions" => ~BlankQuery(call.args.pattern)
     /\ ~Compiles)
    => /\ lastSearchPattern = call.pre.lastSearchPattern
       /\ lastSearchFlags = call.pre.lastSearchFlags

(* C9: in the output of highlightMatches every "&" begins a complete       *)
(* entity, every "<" and ">" belongs to an inserted <mark> or </mark>, and *)
(* there is no quote: no source character is unescaped and no wrapper sits *)
(* inside an entity.                                                       *)
Entities ==
    { <<"&", "a", "m", "p", ";">>, <<"&", "l", "t", ";">>, <<"&", "g", "t", ";">>,
      <<"&", "q", "u", "o", "t", ";">>, <<"&", "#", "0", "3", "9", ";">> }

StartsAt(out, i, w) == i >= 1 /\ i + Len(w) - 1 <= Len(out) /\ SubSeq(out, i, i + Len(w) - 1) = w

WellEscaped(out) ==
    \A i \in 1..Len(out) :
        /\ out[i] = "&" => \E e \in Entities : StartsAt(out, i, e)
        /\ out[i] = "<" => StartsAt(out, i, MarkOpen) \/ StartsAt(out, i, MarkClose)
        /\ out[i] = ">" => \/ StartsAt(out, i - Len(MarkOpen) + 1, MarkOpen)
                           \/ StartsAt(out, i - Len(MarkClose) + 1, MarkClose)
        /\ out[i] \notin {"\"", "'"}

C9_HighlightEscaped ==
    call.op \in {"highlightMatches", "uiHighlightMatches"} => WellEscaped(call.ret.html)

(* C10: validatePattern on a pattern that fails to compile returns a       *)
(* failure with a suggestion: the targeted one for the engine's message,   *)
(* the generic one otherwise.                                              *)
C10_FailureCarriesSuggestion ==
    LET c == compileRegex(call.args.pattern, call.args.flags)
        engine == IF c.setLast THEN RegExpError(c.pattern, c.flags) ELSE <<>>
    IN  (call.op = "validatePattern" /\ engine # <<>>)
        => /\ ~call.ret.isValid
           /\ call.ret.suggestion = getPatternSuggestion(engine)

----------------------------------------------------------------------------
(* getSearchHistory() and its caller.  The array returned is new, the      *)
(* entries in it are the objects of this.searchHistory: an element of      *)
(* `held` is a reference to the entry at position ref of the history, or   *)
(* (ref = 0) an object of the caller's own.                                *)

MaxHeldCalls == 3     \* calls per behaviour of SpecCopy

HeldBudget(A) ==
    ncalls < MaxHeldCalls /\ A /\ ncalls' = ncalls + 1 /\ UNCHANGED stateVars

\* an entry the caller makes
CallerEntry == [pattern |-> <<"z">>, flags |-> <<"g">>, displayPattern |-> <<"/", "z", "/">>]

\* getSearchHistory(): [...this.searchHistory]
GetSearchHistory ==
    HeldBudget(/\ held' = [i \in 1..Len(searchHistory) |->
                              [ref |-> i, own |-> CallerEntry]]
               /\ call' = [op |-> "getSearchHistory", args |-> NoArgs, pre |-> Pre,
                           ret |-> NoRet]
               /\ UNCHANGED <<searchHistory, lastSearchPattern, lastSearchFlags>>)

\* the caller adds an entry of its own to the array it holds
CallerPush ==
    HeldBudget(/\ held' = Append(held, [ref |-> 0, own |-> CallerEntry])
               /\ call' = [op |-> "caller.push", args |-> NoArgs, pre |-> Pre,
                           ret |-> NoRet]
               /\ UNCHANGED <<searchHistory, lastSearchPattern, lastSearchFlags>>)

\* the caller removes an element of the array it holds
CallerSplice ==
    \E i \in 1..Len(held) :
        HeldBudget(/\ held' = SubSeq(held, 1, i - 1) \o SubSeq(held, i + 1, Len(held))
                   /\ call' = [op |-> "caller.splice", args |-> NoArgs, pre |-> Pre,
                               ret |-> NoRet]
                   /\ UNCHANGED <<searchHistory, lastSearchPattern, lastSearchFlags>>)

\* the caller assigns the pattern field of an element of the array it holds
CallerSetPattern ==
    \E i \in 1..Len(held) :
        HeldBudget(/\ IF held[i].ref > 0
                      THEN /\ searchHistory' =
                                [searchHistory EXCEPT ![held[i].ref].pattern = <<"z">>]
                           /\ UNCHANGED held
                      ELSE /\ held' = [held EXCEPT ![i].own.pattern = <<"y">>]
                           /\ UNCHANGED searchHistory
                   /\ call' = [op |-> "caller.set", args |-> NoArgs, pre |-> Pre,
                               ret |-> NoRet]
                   /\ UNCHANGED <<lastSearchPattern, lastSearchFlags>>)

\* a search or a clear replaces the array of the history; the caller holds
\* no array from before it
CopySearch ==
    /\ held = <<>>
    /\ \E q \in {Str(<<"a">>), Str(<<"b">>), Str(<<"(">>)}, ci \in BOOLEAN :
          HeldBudget(searchTransactions(HistoryTransactions, q, ci))
    /\ UNCHANGED held

CopyClear == held = <<>> /\ HeldBudget(ClearSearchHistory) /\ UNCHANGED held

\* the caller lets go of the array it holds
CallerRelease ==
    /\ held # <<>>
    /\ held' = <<>>
    /\ UNCHANGED <<searchHistory, lastSearchPattern, lastSearchFlags, call, ncalls>>
    /\ UNCHANGED stateVars

NextCopy ==
    \/ CopySearch \/ CopyClear \/ GetSearchHistory \/ CallerPush \/ CallerSplice
    \/ CallerSetPattern \/ CallerRelease

SpecCopy == Init /\ [][NextCopy]_vars

(***************************************************************************)
(* C11: getSearchHistory returns a copy: whatever the caller does to the   *)
(* value returned (adding an entry, removing an entry, assigning a field   *)
(* of an entry), the history, which is what a later getSearchHistory       *)
(* returns, is what it was before; clearSearchHistory leaves it empty.     *)
(***************************************************************************)
C11_CopyIsolated ==
    /\ call.op \in {"caller.push", "caller.splice", "caller.set"}
          => searchHistory = call.pre.searchHistory
    /\ call.op = "clearSearchHistory" => searchHistory = <<>>

----------------------------------------------------------------------------
(* The StateManager (src/scripts/state.js).  An amount is a whole number   *)
(* of currency units; an id, a description and a category are strings.     *)

MaxStateCalls == 3    \* calls per behaviour of SpecState

Fields == {"id", "description", "amount", "category", "date", "createdAt", "updatedAt"}

\* validateTransaction(transaction): TRUE when it does not throw
validateTransaction(t) ==
    /\ Trim(t.id) # <<>>
    /\ Trim(t.description) # <<>>
    /\ t.amount >= 0
    /\ Trim(t.category) # <<>>
    /\ t.date.ok

\* the index findIndex(t => t.id === id) finds, 0 for -1
FindIndex(txs, id) ==
    IF \E i \in 1..Len(txs) : txs[i].id = id
    THEN Min({i \in 1..Len(txs) : txs[i].id = id})
    ELSE 0

\* addTransaction without the check of the id
addTransactionNoCheck(txs, t, time) ==
    IF validateTransaction(t)
    THEN [ok |-> TRUE,
          transactions |-> Append(txs,
              [t EXCEPT !.createdAt = IF t.createdAt # 0 THEN t.createdAt ELSE time,
                        !.updatedAt = IF t.updatedAt # 0 THEN t.updatedAt ELSE time])]
    ELSE [ok |-> FALSE, transactions |-> txs]

\* addTransaction(transaction) at the given time: the value returned and
\* the new this.transactions
addTransaction(txs, t, time) ==
    IF validateTransaction(t) /\ ~\E i \in 1..Len(txs) : txs[i].id = t.id
    THEN [ok |-> TRUE,
          transactions |-> Append(txs,
              [t EXCEPT !.createdAt = IF t.createdAt # 0 THEN t.createdAt ELSE time,
                        !.updatedAt = IF t.updatedAt # 0 THEN t.updatedAt ELSE time])]
    ELSE [ok |-> FALSE, transactions |-> txs]

\* {...current, ...updates}: the fields the updates hold replace the current ones
Spread(current, updates) ==
    [f \in Fields |-> IF f \in updates.has THEN updates.tx[f] ELSE current[f]]

\* updateTransaction that lets the updates replace the id and createdAt
updateTransactionUnpinned(txs, id, updates, time) ==
    LET index == FindIndex(txs, id)
        updatedTransaction == [Spread(txs[index], updates) EXCEPT !.updatedAt = time]
    IN  IF index # 0 /\ validateTransaction(updatedTransaction)
        THEN [ok |-> TRUE, transactions |-> [txs EXCEPT ![index] = updatedTransaction]]
        ELSE [ok |-> FALSE, transactions |-> txs]

\* updateTransaction(id, updates) at the given time
updateTransaction(txs, id, updates, time) ==
    LET index == FindIndex(txs, id)
        currentTransaction == txs[index]
        updatedTransaction ==
            [Spread(currentTransaction, updates) EXCEPT
                !.id = currentTransaction.id,
                !.createdAt = currentTransaction.createdAt,
                !.updatedAt = time]
    IN  IF index # 0 /\ validateTransaction(updatedTransaction)
        THEN [ok |-> TRUE, transactions |-> [txs EXCEPT ![index] = updatedTransaction]]
        ELSE [ok |-> FALSE, transactions |-> txs]

\* [...new Set(list)]: each value once, in the order of its first occurrence
RECURSIVE Unique(_, _)
Unique(list, seen) ==
    IF list = <<>> THEN seen
    ELSE Unique(Tail(list),
                IF \E i \in 1..Len(seen) : seen[i] = Head(list)
                THEN seen ELSE Append(seen, Head(list)))

ValidCategoryName(cat) == Trim(cat) # <<>>

\* setCategories that keeps every valid name, repeated or not
setCategoriesKeepAll(list) == SelectSeq(list, ValidCategoryName)

\* setCategories(categories): the new this.categories
setCategories(list) == Unique(SelectSeq(list, ValidCategoryName), <<>>)

\* the letters A-Z and a-z
Letters ==
    [upper |-> <<"A", "B", "C", "D", "E", "F", "G", "H", "I", "J", "K", "L", "M",
                 "N", "O", "P", "Q", "R", "S", "T", "U", "V", "W", "X", "Y", "Z">>,
     lower |-> <<"a", "b", "c", "d", "e", "f", "g", "h", "i", "j", "k", "l", "m",
                 "n", "o", "p", "q", "r", "s", "t", "u", "v", "w", "x", "y", "z">>]

IsLetter(c) == \E i \in 1..26 : c = Letters.upper[i] \/ c = Letters.lower[i]

\* /^[A-Za-z]+(?:[ -][A-Za-z]+)*$/.test(name)
CategoryPattern(name) ==
    /\ name # <<>>
    /\ \A i \in 1..Len(name) :
          \/ IsLetter(name[i])
          \/ /\ name[i] \in {" ", "-"}
             /\ 1 < i /\ i < Len(name)
             /\ IsLetter(name[i - 1]) /\ IsLetter(name[i + 1])

\* removeCategory(categoryName)
removeCategory(cats, txs, categoryName) ==
    LET found == {i \in 1..Len(cats) : cats[i] = categoryName}
        index == IF found = {} THEN 0 ELSE Min(found)
        inUse == \E i \in 1..Len(txs) : txs[i].category = categoryName
    IN  IF index # 0 /\ ~inUse
        THEN [ok |-> TRUE,
              categories |-> SubSeq(cats, 1, index - 1) \o SubSeq(cats, index + 1, Len(cats))]
        ELSE [ok |-> FALSE, categories |-> cats]


----------------------------------------------------------------------------
(* The ValidationManager (src/unnamed/part_001): whether a value is valid  *)

\* description.match(/\b(\w+)\s+\1\b/gi): a word, whitespace, and the same
\* word again up to a word boundary, letter case ignored
DuplicateWords(s) ==
    LET IsWordChar(c) == IsLetter(c) \/ c = "_" \/ \E d \in 0..9 : c = DigitChar(d)
        ToLowerCase(x) ==
            [i \in 1..Len(x) |->
                IF \E k \in 1..26 : x[i] = Letters.upper[k]
                THEN Letters.lower[CHOOSE k \in 1..26 : x[i] = Letters.upper[k]]
                ELSE x[i]]
    IN  \E i \in 1..Len(s), j \in 1..Len(s), k \in 1..Len(s) :
            /\ i <= j /\ j + 1 < k /\ k + (j - i) <= Len(s)
            /\ i = 1 \/ ~IsWordChar(s[i - 1])
            /\ \A p \in i..j : IsWordChar(s[p])
            /\ \A p \in (j + 1)..(k - 1) : IsSpace(s[p])
            /\ ToLowerCase(SubSeq(s, k, k + (j - i))) = ToLowerCase(SubSeq(s, i, j))
            /\ k + (j - i) = Len(s) \/ ~IsWordChar(s[k + (j - i) + 1])

\* validateDescription(description).isValid for a string; the pattern is
\* /^\S(?:.*\S)?$/
validateDescription(description) ==
    /\ Trim(description) # <<>>
    /\ Len(Trim(description)) <= 200
    /\ ~IsSpace(description[1]) /\ ~IsSpace(description[Len(description)])
    /\ ~DuplicateWords(description)

\* /^(0*[1-9]\d*(\.\d{1,2})?|0+\.([1-9]\d?|0[1-9]))$/.test(s)
AmountPattern(s) ==
    LET IsDigit(c) == \E d \in 0..9 : c = DigitChar(d)
        dots == {i \in 1..Len(s) : s[i] = "."}
        whole == IF dots = {} THEN s ELSE SubSeq(s, 1, Min(dots) - 1)
        fraction == IF dots = {} THEN <<>> ELSE SubSeq(s, Min(dots) + 1, Len(s))
        Digits(x) == \A i \in 1..Len(x) : IsDigit(x[i])
        NonZero(x) == \E i \in 1..Len(x) : x[i] # "0"
    IN  /\ whole # <<>> /\ Digits(whole) /\ Digits(fraction)
        /\ \/ NonZero(whole) /\ (dots = {} \/ Len(fraction) \in {1, 2})
           \/ ~NonZero(whole) /\ Len(fraction) \in {1, 2} /\ NonZero(fraction)

\* validateAmount(amount).isValid for a number that is whole
validateAmount(amount) ==
    /\ AmountPattern(IF amount < 0 THEN <<"-">> \o NumberToString(-amount)
                     ELSE NumberToString(amount))
    /\ amount > 0
    /\ amount < 1000000

\* validateDate(date).isValid at the given time: a string in the format
\* YYYY-MM-DD, not in the future, at most ten years old
validateDate(date, time, tz) ==
    LET y == GetFullYear(time, tz)
        m == GetMonth(time, tz)
        tenYearsAgo == time - (DateLocal(y, m, 1, tz) - DateLocal(y - 10, m, 1, tz))
    IN  /\ date.ok
        /\ ~(DateParse(date) > time)
        /\ ~(DateParse(date) < tenYearsAgo)

\* validateCategory(category).isValid for a string
validateCategory(category) ==
    Trim(category) # <<>> /\ CategoryPattern(Trim(category))

\* ValidationManager.validateTransaction(transaction).isValid
validateFormTransaction(t, time, tz) ==
    /\ validateDescription(t.description)
    /\ validateAmount(t.amount)
    /\ validateDate(t.date, time, tz)
    /\ validateCategory(t.category)

\* ValidationManager.validateImportData(data).isValid for a payload object
validateImportData(data, time, tz) ==
    /\ "transactions" \in data.has =>
          \A i \in 1..Len(data.transactions) :
              validateFormTransaction(data.transactions[i], time, tz)
    /\ "categories" \in data.has =>
          \A i \in 1..Len(data.categories) : validateCategory(data.categories[i])
    /\ ("budgetCap" \in data.has /\ data.budgetCap.t # "null") =>
          (data.budgetCap.t = "number" /\ data.budgetCap.n >= 0)

----------------------------------------------------------------------------
(* The StorageManager (src/scripts/storage.js).  An item of localStorage   *)
(* is modelled by the value its JSON text encodes; `fails` is the set of   *)
(* keys for which localStorage.setItem throws (the quota is exceeded).     *)

RECURSIVE CollapseSpaces(_, _)
CollapseSpaces(s, out) ==
    IF s = <<>> THEN out
    ELSE IF IsSpace(Head(s)) /\ out # <<>> /\ out[Len(out)] = " "
    THEN CollapseSpaces(Tail(s), out)
    ELSE CollapseSpaces(Tail(s), Append(out, IF IsSpace(Head(s)) THEN " " ELSE Head(s)))

\* sanitizeString(str) for a string
sanitizeString(str) ==
    LET collapsed == CollapseSpaces(Trim(str), <<>>)
    IN  Substring(collapsed, 0, Min({Len(collapsed), 500}))

\* validateTransactionData(transactions) at the given time
validateTransactionData(txs, time) ==
    LET Kept(t) == /\ t.id # <<>>
                   /\ Trim(t.description) # <<>>
                   /\ t.amount >= 0
                   /\ t.category # <<>>
                   /\ t.date.ok
        kept == SelectSeq(txs, Kept)
    IN  [i \in 1..Len(kept) |->
            [kept[i] EXCEPT
                !.description = sanitizeString(kept[i].description),
                !.category = sanitizeString(kept[i].category),
                !.amount = (kept[i].amount * 100) \div 100,
                !.createdAt = IF kept[i].createdAt # 0 THEN kept[i].createdAt ELSE time,
                !.updatedAt = IF kept[i].updatedAt # 0 THEN kept[i].updatedAt ELSE time]]

\* setItem(key, value): the value returned by the method that calls it, and
\* the new storage
SetItem(store, key, value, fails) ==
    IF key \in fails THEN [ok |-> FALSE, store |-> store]
    ELSE [ok |-> TRUE,
          store |-> [store EXCEPT ![key] = [present |-> TRUE, value |-> value,
                                            json |-> "value", mistyped |-> {}]]]

\* save(transactions)
save(store, txs, time, fails) ==
    SetItem(store, "transactions", validateTransactionData(txs, time), fails)

\* saveCategories(categories)
saveCategories(store, cats, fails) ==
    SetItem(store, "categories", SelectSeq(cats, ValidCategoryName), fails)

\* saveSettings(settings), with validateSettings(settings)
saveSettings(store, settings, fails) ==
    LET validated ==
            [baseCurrency |-> IF settings.baseCurrency \in {"USD", "EUR", "GBP", "CAD", "RWF"}
                              THEN settings.baseCurrency ELSE DefaultSettings.baseCurrency,
             theme |-> IF settings.theme \in {"light", "dark"}
                       THEN settings.theme ELSE DefaultSettings.theme]
    IN  SetItem(store, "settings", validated, fails)

\* saveBudgetCap(budgetCap)
saveBudgetCap(store, cap, fails) ==
    IF cap.t # "number" \/ cap.n < 0 THEN [ok |-> FALSE, store |-> store]
    ELSE SetItem(store, "budgetCap", cap.n, fails)

\* StorageManager.validateImportData(data) for a payload object
storageValidateImportData(data) ==
    \/ "transactions" \in data.has
    \/ "categories" \in data.has
    \/ "settings" \in data.has
    \/ ("budgetCap" \in data.has /\ data.budgetCap.t = "number")

\* importAll(data): each part is written by a method that catches its own
\* failure and returns false, which importAll does not read, so that the
\* handler that restores the backup is never entered
importAll(store, data, time, fails) ==
    IF ~storageValidateImportData(data)
    THEN [ok |-> FALSE, store |-> store]
    ELSE LET s1 == IF "transactions" \in data.has
                   THEN save(store, data.transactions, time, fails).store ELSE store
             s2 == IF "categories" \in data.has
                   THEN saveCategories(s1, data.categories, fails).store ELSE s1
             s3 == IF "settings" \in data.has
                   THEN saveSettings(s2, data.settings, fails).store ELSE s2
             s4 == IF data.budgetCap.t = "number"
                   THEN saveBudgetCap(s3, data.budgetCap, fails).store ELSE s3
         IN  [ok |-> TRUE, store |-> s4]

----------------------------------------------------------------------------
(* Calls on the working set: the StateManager's operations and the         *)
(* handlers of the FinanceTracker that remove a category and import a      *)
(* file.  Each call is made one hour after the one before it.              *)

StateBudget(A) ==
    /\ ncalls < MaxStateCalls
    /\ A
    /\ ncalls' = ncalls + 1
    /\ now' = now + 1
    /\ UNCHANGED <<searchHistory, lastSearchPattern, lastSearchFlags, call, held, timezone>>

Called(op) == [NoLast EXCEPT !.op = op, !.pre = PreState, !.at = now]

\* the call before the one that is recorded, kept by the calls that read
\* what an earlier call wrote
Previous == [op |-> last.op, ok |-> last.ok]

\* a request made to the StorageManager by a handler of the FinanceTracker:
\* the method, its argument, and the working set at the time of the call
WorkingSet(txs, cats, cap) == [transactions |-> txs, categories |-> cats, budgetCap |-> cap]

Request(method, data, memory) == [method |-> method, data |-> data, memory |-> memory]

\* the arguments of the calls
StateInputs ==
    LET Food == DefaultCategories[1]
        Books == DefaultCategories[2]
        day == Date(2025, 3, 1)
    IN  [transactions |->
            { Transaction(<<"1">>, <<"a">>, 5, Food, day, 0, 0),
              Transaction(<<"2">>, <<"b">>, 7, Books, Date(2025, 2, 1), 0, 0),
              Transaction(<<"1">>, <<"c">>, 9, Food, day, 0, 0),
              Transaction(<<"3">>, <<"d">>, -1, Food, day, 0, 0) },
         ids |-> { <<"1">>, <<"9">> },
         updates |->
            { [has |-> {"amount"}, tx |-> [NoUpdates.tx EXCEPT !.amount = 6]],
              [has |-> {"amount"}, tx |-> [NoUpdates.tx EXCEPT !.amount = -1]],
              [has |-> {"id", "description", "createdAt", "updatedAt"},
               tx |-> [NoUpdates.tx EXCEPT !.id = <<"9">>, !.description = <<"e">>,
                                           !.createdAt = 1, !.updatedAt = 2]] },
         arrays |->
            { <<>>,
              << Transaction(<<"2">>, <<"b">>, 7, Books, Date(2025, 2, 1), 3, 4) >>,
              << Transaction(<<"1">>, <<"a">>, 5, Food, day, 3, 4),
                 Transaction(<<"1">>, <<"c">>, 9, Books, day, 3, 4) >> },
         lists |-> { <<Food, Food>>, <<Books, <<" ">>, Food, Books>>, <<Food>>, <<>> },
         names |-> { Food, Books, <<" ", "R", "e", "n", "t", " ">>, <<"R", "2">> },
         payloads |->
            { NoPayload,
              [NoPayload EXCEPT !.has = {"transactions"},
                                !.transactions =
                                    << Transaction(<<"1">>, <<"a">>, 5, Food, day, 3, 4),
                                       Transaction(<<"1">>, <<"c">>, 9, Books, day, 3, 4) >>],
              [NoPayload EXCEPT !.has = {"transactions"},
                                !.transactions =
                                    << Transaction(<<"2">>, <<" ", "b">>, 7, Books,
                                                   Date(2025, 2, 1), 3, 4) >>],
              [NoPayload EXCEPT !.has = {"categories"}, !.categories = <<Books>>],
              [NoPayload EXCEPT !.has = {"categories"}, !.categories = <<Food, Books, Food>>],
              [NoPayload EXCEPT !.has = {"budgetCap"}, !.budgetCap = Num(0)],
              [NoPayload EXCEPT !.has = {"settings", "budgetCap"},
                                !.settings = [baseCurrency |-> "EUR", theme |-> "blue"],
                                !.budgetCap = Num(50)] }]

SetTransactions ==
    \E list \in StateInputs.arrays :
        StateBudget(/\ transactions' = list
                    /\ last' = [Called("setTransactions") EXCEPT !.list = list]
                    /\ UNCHANGED <<categories, budgetCap, localStorage>>)

AddTransaction ==
    \E t \in StateInputs.transactions :
        LET r == addTransaction(transactions, t, now)
        IN  StateBudget(/\ transactions' = r.transactions
                        /\ last' = [Called("addTransaction") EXCEPT
                                       !.ok = r.ok, !.id = t.id,
                                       !.tx = [has |-> Fields, tx |-> t]]
                        /\ UNCHANGED <<categories, budgetCap, localStorage>>)

UpdateTransaction ==
    \E id \in StateInputs.ids, updates \in StateInputs.updates :
        LET r == updateTransaction(transactions, id, updates, now)
        IN  StateBudget(/\ transactions' = r.transactions
                        /\ last' = [Called("updateTransaction") EXCEPT
                                       !.ok = r.ok, !.id = id, !.tx = updates]
                        /\ UNCHANGED <<categories, budgetCap, localStorage>>)

\* deleteTransaction(id)
DeleteTransaction ==
    \E id \in StateInputs.ids :
        LET index == FindIndex(transactions, id)
        IN  StateBudget(/\ transactions' =
                              IF index = 0 THEN transactions
                              ELSE SubSeq(transactions, 1, index - 1)
                                       \o SubSeq(transactions, index + 1, Len(transactions))
                        /\ last' = [Called("deleteTransaction") EXCEPT
                                       !.ok = (index # 0), !.id = id]
                        /\ UNCHANGED <<categories, budgetCap, localStorage>>)

SetCategories ==
    \E list \in StateInputs.lists :
        StateBudget(/\ categories' = setCategories(list)
                    /\ last' = [Called("setCategories") EXCEPT !.list = list]
                    /\ UNCHANGED <<transactions, budgetCap, localStorage>>)

\* addCategory(categoryName)
AddCategory ==
    \E categoryName \in StateInputs.names :
        LET trimmedName == Trim(categoryName)
            ok == /\ trimmedName # <<>>
                  /\ ~\E i \in 1..Len(categories) : categories[i] = trimmedName
                  /\ CategoryPattern(trimmedName)
        IN  StateBudget(/\ categories' = IF ok THEN Append(categories, trimmedName)
                                         ELSE categories
                        /\ last' = [Called("addCategory") EXCEPT
                                       !.ok = ok, !.name = categoryName]
                        /\ UNCHANGED <<transactions, budgetCap, localStorage>>)

RemoveCategory ==
    \E name \in StateInputs.names :
        LET r == removeCategory(categories, transactions, name)
        IN  StateBudget(/\ categories' = r.categories
                        /\ last' = [Called("removeCategory") EXCEPT
                                       !.ok = r.ok, !.name = name]
                        /\ UNCHANGED <<transactions, budgetCap, localStorage>>)

\* FinanceTracker.removeCategory(categoryName); ok is FALSE when the handler
\* shows an error message
AppRemoveCategory ==
    \E name \in StateInputs.names :
        LET refused == \/ Len(categories) <= 1
                       \/ \E i \in 1..Len(transactions) : transactions[i].category = name
            r == removeCategory(categories, transactions, name)
        IN  StateBudget(/\ categories' = IF refused THEN categories ELSE r.categories
                        /\ localStorage' =
                              IF refused THEN localStorage
                              ELSE saveCategories(localStorage, r.categories, {}).store
                        /\ last' = [Called("FinanceTracker.removeCategory") EXCEPT
                                       !.ok = ~refused, !.name = name,
                                       !.requests =
                                           IF refused THEN <<>>
                                           ELSE << Request("saveCategories",
                                                       WorkingSet(<<>>, r.categories, Null),
                                                       WorkingSet(transactions, r.categories,
                                                                  budgetCap)) >>]
                        /\ UNCHANGED <<transactions, budgetCap>>)

\* FinanceTracker.importData() for a file that holds a JSON object; ok is
\* TRUE when the handler shows 'Data imported successfully!'.  The refresh
\* of the user interface that ends the handler is not modelled.
ImportData ==
    \E data \in StateInputs.payloads :
        LET valid == validateImportData(data, now, timezone)
            hasTx == valid /\ "transactions" \in data.has
            hasCats == valid /\ "categories" \in data.has
            hasSettings == valid /\ "settings" \in data.has
            hasCap == valid /\ data.budgetCap.t = "number" /\ data.budgetCap.n # 0
            s1 == IF hasTx THEN save(localStorage, data.transactions, now, {}).store
                  ELSE localStorage
            s2 == IF hasCats THEN saveCategories(s1, data.categories, {}).store ELSE s1
            s3 == IF hasSettings THEN saveSettings(s2, data.settings, {}).store ELSE s2
            s4 == IF hasCap THEN saveBudgetCap(s3, data.budgetCap, {}).store ELSE s3
            m1 == IF hasTx THEN data.transactions ELSE transactions
            m2 == IF hasCats THEN setCategories(data.categories) ELSE categories
            m3 == IF hasCap THEN data.budgetCap ELSE budgetCap
            requests ==
                (IF hasTx
                 THEN << Request("save", WorkingSet(data.transactions, <<>>, Null),
                                 WorkingSet(m1, categories, budgetCap)) >>
                 ELSE <<>>)
                \o (IF hasCats
                    THEN << Request("saveCategories", WorkingSet(<<>>, data.categories, Null),
                                    WorkingSet(m1, m2, budgetCap)) >>
                    ELSE <<>>)
                \o (IF hasSettings
                    THEN << Request("saveSettings", WorkingSet(<<>>, <<>>, Null),
                                    WorkingSet(m1, m2, budgetCap)) >>
                    ELSE <<>>)
                \o (IF hasCap
                    THEN << Request("saveBudgetCap", WorkingSet(<<>>, <<>>, data.budgetCap),
                                    WorkingSet(m1, m2, m3)) >>
                    ELSE <<>>)
        IN  StateBudget(/\ transactions' = IF hasTx THEN data.transactions ELSE transactions
                        /\ categories' = IF hasCats THEN setCategories(data.categories)
                                         ELSE categories
                        /\ budgetCap' = IF hasCap THEN data.budgetCap ELSE budgetCap
                        /\ localStorage' = s4
                        /\ last' = [Called("importData") EXCEPT
                                       !.ok = valid, !.payload = data,
                                       !.requests = requests])

\* clearAll()
ClearAll ==
    StateBudget(/\ transactions' = <<>>
                /\ categories' = DefaultCategories
                /\ budgetCap' = Null
                /\ last' = Called("clearAll")
                /\ UNCHANGED localStorage)

NextState ==
    \/ SetTransactions \/ AddTransaction \/ UpdateTransaction \/ DeleteTransaction
    \/ SetCategories \/ AddCategory \/ RemoveCategory \/ AppRemoveCategory
    \/ ImportData \/ ClearAll

SpecState == Init /\ [][NextState]_vars

----------------------------------------------------------------------------
(* Vocabulary of the properties of the working set *)

Elements(list) == {list[i] : i \in 1..Len(list)}

\* the index of the first occurrence of a value in a list that holds it
FirstIndex(list, v) == Min({i \in 1..Len(list) : list[i] = v})

NoRepeat(list) == \A i, j \in 1..Len(list) : i # j => list[i] # list[j]

\* the working set is what it was before the last call
WorkingSetUnchanged ==
    transactions = last.pre.transactions /\ categories = last.pre.categories

(***************************************************************************)
(* C12: in every state reached by setTransactions, addTransaction,         *)
(* updateTransaction, deleteTransaction, the import of a file and          *)
(* clearAll, no two transactions of the working set have the same id.      *)
(***************************************************************************)
C12_UniqueIds ==
    \A i, j \in 1..Len(transactions) :
        i # j => transactions[i].id # transactions[j].id

(***************************************************************************)
(* C13: a successful updateTransaction(id, updates) leaves the id and the  *)
(* createdAt of the record as they were, whatever the updates hold, sets   *)
(* its updatedAt to the time of the call, and leaves every other record    *)
(* as it was.                                                              *)
(***************************************************************************)
C13_UpdateKeepsIdentity ==
    (last.op = "updateTransaction" /\ last.ok) =>
        LET before == last.pre.transactions
            index == FirstIndex([i \in 1..Len(before) |-> before[i].id], last.id)
        IN  /\ Len(transactions) = Len(before)
            /\ transactions[index].id = before[index].id
            /\ transactions[index].createdAt = before[index].createdAt
            /\ transactions[index].updatedAt = last.at
            /\ \A k \in 1..Len(before) : k # index => transactions[k] = before[k]

\* an update that names another id and another createdAt went through, next
\* to a record it had to leave alone
C13_UpdatedWithOtherId ==
    /\ last.op = "updateTransaction" /\ last.ok
    /\ {"id", "createdAt"} \subseteq last.tx.has
    /\ last.tx.tx.id # last.id
    /\ Len(transactions) >= 2

C15_ReferencedCategoryKept ==
    last.op \in {"addTransaction", "removeCategory", "FinanceTracker.removeCategory",
                 "setCategories", "importData"} =>
        \A c \in Elements(last.pre.categories) :
            (\E i \in 1..Len(transactions) : transactions[i].category = c)
                => c \in Elements(categories)

(***************************************************************************)
(* C16: the category set never holds the same string twice.                *)
(* setCategories stores each distinct valid name of its argument once, in  *)
(* the order of first occurrence; addCategory refuses a name already       *)
(* present.                                                                *)
(***************************************************************************)
C16_CategoriesDistinct ==
    /\ NoRepeat(categories)
    /\ last.op = "setCategories" =>
          LET valid == {c \in Elements(last.list) : \E i \in 1..Len(c) : c[i] # " "}
          IN  /\ Elements(categories) = valid
              /\ \A i, j \in 1..Len(categories) :
                    i < j => FirstIndex(last.list, categories[i])
                                 < FirstIndex(last.list, categories[j])
    /\ (last.op = "addCategory" /\ Trim(last.name) \in Elements(last.pre.categories))
          => (~last.ok /\ categories = last.pre.categories)

\* setCategories was handed a list that repeats a name and stored it once
C16_RepeatedNameStoredOnce ==
    /\ last.op = "setCategories"
    /\ ~NoRepeat(last.list)
    /\ categories # <<>>
    /\ Len(categories) < Len(last.list)

----------------------------------------------------------------------------
(* The statistics of the StateManager.  A quotient is kept as the pair of  *)
(* its numerator and denominator.  Of the value calculateStatistics        *)
(* returns, the budget view and the monthly trends are modelled; of a      *)
(* trend entry, the name of the month is left out.                         *)

\* transactions.reduce((sum, t) => sum + t.amount, 0)
RECURSIVE SumAmounts(_)
SumAmounts(txs) == IF txs = <<>> THEN 0 ELSE Head(txs).amount + SumAmounts(Tail(txs))

\* getSpendingForPeriod(transactions, startDate, endDate)
getSpendingForPeriod(txs, startDate, endDate) ==
    LET InPeriod(t) == DateParse(t.date) >= startDate /\ DateParse(t.date) <= endDate
    IN  SumAmounts(SelectSeq(txs, InPeriod))

\* getMonthlyTrends(transactions) at the given time: the k-th entry is the
\* one pushed for i = 12 - k
getMonthlyTrends(txs, time, tz) ==
    [k \in 1..12 |->
        LET monthIndex == GetMonth(time, tz) - (12 - k)
            date == DateLocal(GetFullYear(time, tz), monthIndex, 1, tz)
            nextMonth == DateLocal(GetFullYear(time, tz), monthIndex + 1, 1, tz)
            monthSpending == getSpendingForPeriod(txs, date, nextMonth)
            InMonth(t) == DateParse(t.date) >= date /\ DateParse(t.date) < nextMonth
            monthTransactions == SelectSeq(txs, InMonth)
        IN  [year |-> GetFullYear(time, tz) + (monthIndex \div 12),
             month |-> (monthIndex % 12) + 1,
             spending |-> monthSpending,
             transactionCount |-> Len(monthTransactions),
             average |-> IF Len(monthTransactions) > 0
                         THEN [num |-> monthSpending, den |-> Len(monthTransactions)]
                         ELSE [num |-> 0, den |-> 1]]]

\* calculateStatistics() at the given time
calculateStatistics(txs, cap, time, tz) ==
    LET monthStart == DateLocal(GetFullYear(time, tz), GetMonth(time, tz), 1, tz)
        monthSpending == getSpendingForPeriod(txs, monthStart, time)
    IN  [trends |-> getMonthlyTrends(txs, time, tz),
         budget |-> IF cap.t = "number" /\ cap.n # 0
                    THEN [present |-> TRUE, cap |-> cap.n, spent |-> monthSpending,
                          remaining |-> Max({0, cap.n - monthSpending}),
                          percentage |-> [num |-> monthSpending * 100, den |-> cap.n]]
                    ELSE NoStats.budget]

\* a session with transactions in the working set, at some time in some
\* time zone
InitStats ==
    /\ searchHistory = <<>>
    /\ lastSearchPattern = <<>>
    /\ lastSearchFlags = <<"i">>
    /\ call = [op |-> "constructor", args |-> NoArgs, ret |-> NoRet,
               pre |-> [searchHistory |-> <<>>, lastSearchPattern |-> <<>>,
                        lastSearchFlags |-> <<"i">>]]
    /\ ncalls = 0
    /\ held = <<>>
    /\ transactions \in
          LET T(id, amount, date) ==
                  Transaction(<<id>>, <<"a">>, amount, DefaultCategories[1], date, 1, 1)
          IN  { <<>>,
                << T("1", 5, Date(2025, 3, 1)), T("2", 7, Date(2025, 2, 15)) >>,
                << T("1", 4, Date(2025, 2, 1)), T("2", 6, Date(2025, 3, 5)),
                   T("3", 9, Date(2025, 1, 20)) >>,
                << T("1", 3, Date(2024, 4, 1)), T("2", 8, Date(2024, 12, 31)) >> }
    /\ categories = DefaultCategories
    /\ budgetCap = Null
    /\ now \in { DateParse(Date(2025, 3, 10)) + 12, DateParse(Date(2025, 1, 31)) + 23 }
    /\ timezone \in { 0, 2, -5 }
    /\ localStorage = EmptyStorage
    /\ last = NoLast

\* setBudgetCap(cap); ok is FALSE when it throws
SetBudgetCap ==
    \E cap \in { Null, Undefined, Num(0), Num(10), Num(5), Num(-1) } :
        LET ok == (cap.t = "number" /\ cap.n >= 0) \/ cap.t = "null"
        IN  StateBudget(/\ budgetCap' = IF ok THEN cap ELSE budgetCap
                        /\ last' = [Called("setBudgetCap") EXCEPT !.ok = ok]
                        /\ UNCHANGED <<transactions, categories, localStorage>>)

CalculateStatistics ==
    StateBudget(/\ last' = [Called("calculateStatistics") EXCEPT
                               !.stats = calculateStatistics(transactions, budgetCap,
                                                             now, timezone)]
                /\ UNCHANGED <<transactions, categories, budgetCap, localStorage>>)

NextStats == SetBudgetCap \/ CalculateStatistics

SpecStats == InitStats /\ [][NextStats]_vars

----------------------------------------------------------------------------
(* Vocabulary of the properties of the statistics *)

\* the first instant of the month k of the twelve of the trends, counted at
\* the time of the last call (13: of the month after the current one)
StartOfMonth(k) ==
    DateLocal(GetFullYear(last.at, timezone), GetMonth(last.at, timezone) - (12 - k),
              1, timezone)

\* the records of the working set dated from one instant up to another,
\* the latter left out (in) or not
DatedWithin(from, to, closed) ==
    LET Within(t) == /\ DateParse(t.date) >= from
                     /\ DateParse(t.date) < to \/ (closed /\ DateParse(t.date) = to)
    IN  SelectSeq(transactions, Within)

(***************************************************************************)
(* C17: whenever a budget cap is set, to any non-negative number, 0        *)
(* included, calculateStatistics returns a budget view with spent the sum  *)
(* of the current month up to the time of the call, remaining              *)
(* max(0, cap - spent) and percentage spent / cap * 100, not capped; the   *)
(* view is absent only when the cap is null.                               *)
(***************************************************************************)
C17_BudgetView ==
    last.op = "calculateStatistics" =>
        LET view == last.stats.budget
            spent == SumAmounts(DatedWithin(StartOfMonth(12), last.at, TRUE))
        IN  IF budgetCap.t = "null" THEN ~view.present
            ELSE /\ view.present
                 /\ view.cap = budgetCap.n
                 /\ view.spent = spent
                 /\ view.remaining = (IF budgetCap.n > spent THEN budgetCap.n - spent ELSE 0)
                 /\ view.percentage = [num |-> spent * 100, den |-> budgetCap.n]

(***************************************************************************)
(* C18: getMonthlyTrends returns 12 entries, oldest month first, and in    *)
(* each entry the spending, the count and the average describe the same    *)
(* records, those dated within the month: the spending is the sum of the   *)
(* amounts of exactly the records counted, so that no record is added to   *)
(* the spending of two months.                                             *)
(***************************************************************************)
C18_TrendsDescribeOneMonth ==
    last.op = "calculateStatistics" =>
        LET trends == last.stats.trends
        IN  /\ Len(trends) = 12
            /\ \A k \in 1..11 :
                  trends[k].year * 12 + trends[k].month + 1
                      = trends[k + 1].year * 12 + trends[k + 1].month
            /\ \A k \in 1..12 :
                  LET counted == DatedWithin(StartOfMonth(k), StartOfMonth(k + 1), FALSE)
                  IN  /\ trends[k].transactionCount = Len(counted)
                      /\ trends[k].spending = SumAmounts(counted)
                      /\ trends[k].average =
                            (IF counted = <<>> THEN [num |-> 0, den |-> 1]
                             ELSE [num |-> SumAmounts(counted), den |-> Len(counted)])

(***************************************************************************)
(* C19: validateImportData rejects as structurally invalid a payload       *)
(* object that has none of the four keys transactions, categories,         *)
(* settings and budgetCap, so that the import of such a file is never      *)
(* reported as successful.                                                 *)
(***************************************************************************)
C19_EmptyPayloadRejected ==
    (last.op = "importData" /\ last.payload.has = {}) => ~last.ok

----------------------------------------------------------------------------
(* StorageManager.importAll, called with a snapshot while localStorage     *)
(* refuses the writes of some of its items.                                *)

\* importAll(data); ok is the value it returns
ImportAll ==
    \E data \in StateInputs.payloads,
       fails \in { {}, {"categories"}, {"budgetCap"}, {"transactions", "settings"} } :
        LET r == importAll(localStorage, data, now, fails)
        IN  StateBudget(/\ localStorage' = r.store
                        /\ last' = [Called("importAll") EXCEPT
                                       !.ok = r.ok, !.payload = data, !.fails = fails]
                        /\ UNCHANGED <<transactions, categories, budgetCap>>)

SpecStorage == Init /\ [][ImportAll]_vars

(***************************************************************************)
(* C20: importAll is all or nothing.  When the write of a part of the      *)
(* snapshot fails, the stored data is what it was before the call and      *)
(* importAll returns false; it returns true only when every part present   *)
(* in the snapshot was stored.                                             *)
(***************************************************************************)
C20_ImportAllOrNothing ==
    last.op = "importAll" =>
        LET parts == (last.payload.has \ {"budgetCap"})
                         \cup (IF last.payload.budgetCap.t = "number"
                               THEN {"budgetCap"} ELSE {})
            failed == parts \cap last.fails
        IN  /\ failed # {} => (~last.ok /\ localStorage = last.pre.localStorage)
            /\ last.ok => \A key \in parts : localStorage[key].present

----------------------------------------------------------------------------
(* The results of the field validators of the ValidationManager: the       *)
(* reason of a failure is the key of its message in errorMessages, ""      *)
(* when the value is valid, and "duplicate" for the message                *)
(* `Duplicate words found: "..."`, whose quoted text is kept apart.        *)

\* description.match(/\b(\w+)\s+\1\b/gi)[0]: the text of the leftmost match
DuplicateMatch(s) ==
    LET IsWordChar(c) == IsLetter(c) \/ c = "_" \/ \E d \in 0..9 : c = DigitChar(d)
        ToLowerCase(x) ==
            [i \in 1..Len(x) |->
                IF \E k \in 1..26 : x[i] = Letters.upper[k]
                THEN Letters.lower[CHOOSE k \in 1..26 : x[i] = Letters.upper[k]]
                ELSE x[i]]
        MatchFrom(i, j, k) ==
            /\ i <= j /\ j + 1 < k /\ k + (j - i) <= Len(s)
            /\ i = 1 \/ ~IsWordChar(s[i - 1])
            /\ \A p \in i..j : IsWordChar(s[p])
            /\ \A p \in (j + 1)..(k - 1) : IsSpace(s[p])
            /\ ToLowerCase(SubSeq(s, k, k + (j - i))) = ToLowerCase(SubSeq(s, i, j))
            /\ k + (j - i) = Len(s) \/ ~IsWordChar(s[k + (j - i) + 1])
        starts == {i \in 1..Len(s) : \E j, k \in 1..Len(s) : MatchFrom(i, j, k)}
        first == Min(starts)
        ends == {k + (j - first) : <<j, k>> \in
                    {jk \in (1..Len(s)) \X (1..Len(s)) : MatchFrom(first, jk[1], jk[2])}}
    IN  IF starts = {} THEN <<>> ELSE SubSeq(s, first, Max(ends))

\* validateDescription(description): the reason of the failure and the text
\* the message quotes
validateDescriptionResult(description) ==
    LET Fail(reason) == [error |-> reason, cited |-> <<>>]
    IN  IF Falsy(description) \/ description.t # "string" THEN Fail("required")
        ELSE IF Trim(description.s) = <<>> THEN Fail("required")
        ELSE IF Len(Trim(description.s)) > 200 THEN Fail("tooLong")
        ELSE IF IsSpace(description.s[1]) \/ IsSpace(description.s[Len(description.s)])
             THEN Fail("invalid")
        ELSE IF DuplicateMatch(description.s) # <<>>
             THEN [error |-> "duplicate", cited |-> DuplicateMatch(description.s)]
        ELSE Fail("")

\* parseFloat(s) of digits with an optional fraction, as a quotient
RECURSIVE ParseDigits(_, _)
ParseDigits(x, acc) ==
    IF x = <<>> THEN acc
    ELSE ParseDigits(Tail(x), acc * 10 + (CHOOSE d \in 0..9 : DigitChar(d) = Head(x)))

parseFloat(s) ==
    LET dots == {i \in 1..Len(s) : s[i] = "."}
        whole == IF dots = {} THEN s ELSE SubSeq(s, 1, Min(dots) - 1)
        fraction == IF dots = {} THEN <<>> ELSE SubSeq(s, Min(dots) + 1, Len(s))
    IN  [num |-> ParseDigits(whole \o fraction, 0), den |-> 10 ^ Len(fraction)]

\* validateAmount(amount): the reason of the failure
validateAmountResult(amount) ==
    LET amountString ==
            IF amount.t = "number"
            THEN IF amount.n < 0 THEN <<"-">> \o NumberToString(-amount.n)
                 ELSE NumberToString(amount.n)
            ELSE amount.s
        numericAmount == parseFloat(amountString)
    IN  IF amount.t \in {"null", "undefined"} \/ amount = Str(<<>>) THEN "required"
        ELSE IF ~AmountPattern(amountString) THEN "invalid"
        ELSE IF numericAmount.num <= 0 THEN "tooSmall"
        ELSE IF numericAmount.num >= 1000000 * numericAmount.den THEN "tooLarge"
        ELSE ""

\* the values given to the validators
ValidatorInputs ==
    LET StringsOver(alphabet, n) == UNION {[1..k -> alphabet] : k \in 0..n}
    IN
    [amounts |->
        {Str(x) : x \in StringsOver({"0", "1", ".", "a"}, 4)}
        \cup { Null, Undefined, Num(0), Num(5), Num(-1), Num(1000000),
               Str(<<"1", "0", "0", "0", "0", "0", "0">>),
               Str(<<"9", "9", "9", "9", "9", "9", ".", "9", "9">>) },
     descriptions |->
        {Str(x) : x \in StringsOver({"a", "A", "b", " "}, 4)}
        \cup { Null, Undefined, Num(5),
               Str(<<"a", "b", " ", " ", "A", "B">>),
               Str(<<"a", "b", " ", "a", "b", "c">>),
               Str(<<"a", " ", "a", " ">> \o [i \in 1..200 |-> "x"]),
               Str([i \in 1..201 |-> "x"]) }]

ValidateAmount ==
    /\ \E amount \in ValidatorInputs.amounts :
          call' = [op |-> "validateAmount", pre |-> Pre,
                   args |-> [NoArgs EXCEPT !.text = amount],
                   ret |-> [NoRet EXCEPT
                               !.isValid = validateAmountResult(amount) = "",
                               !.error = validateAmountResult(amount)]]
    /\ UNCHANGED <<searchHistory, lastSearchPattern, lastSearchFlags, ncalls, held, stateVars>>

ValidateDescription ==
    /\ \E description \in ValidatorInputs.descriptions :
          call' = [op |-> "validateDescription", pre |-> Pre,
                   args |-> [NoArgs EXCEPT !.text = description],
                   ret |-> [NoRet EXCEPT
                               !.isValid = validateDescriptionResult(description).error = "",
                               !.error = validateDescriptionResult(description).error,
                               !.cited = validateDescriptionResult(description).cited]]
    /\ UNCHANGED <<searchHistory, lastSearchPattern, lastSearchFlags, ncalls, held, stateVars>>

SpecValidators == Init /\ [][ValidateAmount \/ ValidateDescription]_vars

\* a string of digits, with an optional fraction of one or two digits
NumericShaped(v) ==
    /\ v.t = "string"
    /\ LET s == v.s
           dots == {i \in 1..Len(s) : s[i] = "."}
           whole == IF dots = {} THEN s ELSE SubSeq(s, 1, Min(dots) - 1)
           fraction == IF dots = {} THEN <<>> ELSE SubSeq(s, Min(dots) + 1, Len(s))
           Digits(x) == \A i \in 1..Len(x) : \E d \in 0..9 : x[i] = DigitChar(d)
       IN  /\ whole # <<>> /\ Digits(whole) /\ Digits(fraction)
           /\ dots = {} \/ Len(fraction) \in {1, 2}

\* an immediately repeated word: a word, whitespace and the same word again,
\* letter case ignored
RepeatedWord(s) ==
    \E i, j \in 1..Len(s) :
        /\ i > 1 /\ i <= j /\ IsSpace(s[i - 1]) /\ ~IsSpace(s[i])
        /\ j = Len(s) \/ IsSpace(s[j + 1])
        /\ \A p \in i..j : ~IsSpace(s[p])
        /\ \E h \in 1..(i - 1) :
              /\ h = 1 \/ IsSpace(s[h - 1])
              /\ h + (j - i) < i
              /\ \A p \in (h + (j - i) + 1)..(i - 1) : IsSpace(s[p])
              /\ \A p \in 0..(j - i) :
                    \/ s[h + p] = s[i + p]
                    \/ \E c \in 1..26 :
                          {s[h + p], s[i + p]} = {Letters.upper[c], Letters.lower[c]}

\* C21: validateAmount rejects the inputs "0" and "0.00" with the reason
\* "too small" (amount must be greater than 0), and rejects with the reason
\* "invalid" only inputs that do not have the shape of a number.

C21_ZeroIsTooSmall ==
    call.op = "validateAmount" =>
        /\ call.args.text \in {Str(<<"0">>), Str(<<"0", ".", "0", "0">>)} =>
              call.ret.error = "tooSmall"
        /\ call.ret.error = "invalid" => ~NumericShaped(call.args.text)

\* C22: validateDescription rejects every description that contains an
\* immediately repeated word, and the reason cites the repeated pair,
\* whatever else is wrong with the description (whitespace at its ends, a
\* length over 200).

C22_DuplicateCited ==
    (/\ call.op = "validateDescription"
     /\ call.args.text.t = "string"
     /\ RepeatedWord(call.args.text.s)) =>
        /\ ~call.ret.isValid
        /\ call.ret.error = "duplicate"
        /\ RepeatedWord(call.ret.cited)

----------------------------------------------------------------------------
(* The search suggestions of the SearchManager.  Of the value returned,    *)
(* the patterns built from the records are modelled, each by the text it   *)
(* is compiled from: the "above average" pattern of the amounts and one    *)
(* pattern per distinct category.  The other patterns are literals, and    *)
(* the two date patterns are built from the digits of the current year     *)
(* and month: none of them can fail to compile.                            *)

\* generateAmountPatterns(transactions): the text of the character class
\* `[${Math.ceil(avgAmount)}-9]` and whether new RegExp accepts it.  The
\* average of no amounts (0 / 0), or of amounts one of which is not a
\* number, is NaN, and Math.ceil(NaN) is NaN; in "[NaN-9]" the range N-9
\* is out of order, which is a SyntaxError.
generateAmountPatterns(txs) ==
    LET amounts == [i \in 1..Len(txs) |-> txs[i].amount]
        isNaN == amounts = <<>> \/ \E i \in 1..Len(amounts) : amounts[i].t # "number"
        sum == SumAmounts([i \in 1..Len(amounts) |-> [amount |-> amounts[i].n]])
        ceil == -((-sum) \div Len(amounts))
        text == IF isNaN THEN <<"N", "a", "N">> ELSE NumberToString(ceil)
        class == <<"[">> \o text \o <<"-", "9", "]">>
        lower == class[Len(class) - 3]
    IN  [class |-> class,
         error |-> IF \E d \in 0..9 : lower = DigitChar(d) THEN <<>>
                   ELSE <<"Invalid", "regular", "expression:", "Range", "out", "of",
                          "order", "in", "character", "class">>]

\* generateCategoryPatterns(transactions): new RegExp(`\\b${category}\\b`, 'gi')
\* for each distinct category, in the order of first occurrence
generateCategoryPatterns(txs) ==
    LET TemplateText(v) ==
            IF v.t = "undefined" THEN <<"u", "n", "d", "e", "f", "i", "n", "e", "d">>
            ELSE ToStringOf(v).s
        names == Unique([i \in 1..Len(txs) |-> TemplateText(txs[i].category)], <<>>)
        failing == {i \in 1..Len(names) : RegExpError(names[i], <<"g", "i">>) # <<>>}
    IN  [sources |-> [i \in 1..Len(names) |-> <<"\\b">> \o names[i] \o <<"\\b">>],
         error |-> IF failing = {} THEN <<>>
                   ELSE RegExpError(names[Min(failing)], <<"g", "i">>)]

\* getSearchSuggestions(transactions): the generators are called in the
\* order amounts, dates, descriptions, categories, advanced, and nothing
\* catches what one of them throws; analyzeWordFrequency reads
\* transaction.description.toLowerCase()
getSearchSuggestions(txs) ==
    LET amounts == generateAmountPatterns(txs)
        cats == generateCategoryPatterns(txs)
    IN  IF amounts.error # <<>>
            THEN [NoRet EXCEPT !.kind = "raised", !.msg = amounts.error]
        ELSE IF \E i \in 1..Len(txs) : txs[i].description.t # "string"
            THEN [NoRet EXCEPT !.kind = "raised",
                               !.msg = <<"Cannot", "read", "properties", "of", "undefined">>]
        ELSE IF cats.error # <<>>
            THEN [NoRet EXCEPT !.kind = "raised", !.msg = cats.error]
        ELSE [NoRet EXCEPT !.kind = "suggestions",
                           !.sources = <<amounts.class>> \o cats.sources]

\* the record sets given to getSearchSuggestions
SuggestionInputs ==
    LET TxOpen == Tx(Str(<<"d">>), Str(<<"(">>), Num(120), Str(<<"2", "5">>))
    IN  UNION {[1..k -> {TxLunch, TxAmp, TxNoAmount, TxNoDescription, TxOpen}] : k \in 0..3}

GetSearchSuggestions ==
    /\ \E txs \in SuggestionInputs :
          call' = [op |-> "getSearchSuggestions", pre |-> Pre,
                   args |-> [NoArgs EXCEPT !.transactions = txs],
                   ret |-> getSearchSuggestions(txs)]
    /\ UNCHANGED <<searchHistory, lastSearchPattern, lastSearchFlags, ncalls, held, stateVars>>

SpecSuggestions == Init /\ [][GetSearchSuggestions]_vars

\* C23: getSearchSuggestions returns the suggestions for every record set,
\* the empty set included, and raises no error to its caller.

C23_SuggestionsForEverySet ==
    call.op = "getSearchSuggestions" => call.ret.kind = "suggestions"

----------------------------------------------------------------------------
(* Loading and saving the transactions (StorageManager.load and save) in   *)
(* a session that finds anything in localStorage: nothing, a text that     *)
(* does not parse, a value that is not an array, or an array of records.   *)

\* load(): what it returns; whatever JSON.parse or validateTransactionData
\* throws is caught, and load returns []
load(store, time) ==
    LET item == store.transactions
        typed == {i \in 1..Len(item.value) : i \notin item.mistyped}
        IsTyped(i) == i \in typed
        positions == SelectSeq([i \in 1..Len(item.value) |-> i], IsTyped)
    IN  IF ~item.present \/ item.json # "value" THEN <<>>
        ELSE validateTransactionData([k \in 1..Len(positions) |-> item.value[positions[k]]],
                                     time)

\* the records found in localStorage and given to save
StoredInputs ==
    LET Food == DefaultCategories[1]
        day == Date(2025, 3, 1)
        records ==
            { Transaction(<<"1">>, <<"a">>, 5, Food, day, 3, 4),
              Transaction(<<"2">>, <<" ", "a", " ", " ", "b">>, 7, Food, day, 0, 0),
              Transaction(<<"3">>, <<"c">>, 9, <<" ">>, day, 3, 4),
              Transaction(<<"4">>, <<" ">>, 2, Food, day, 3, 4),
              Transaction(<<"5">>, <<"e">>, -1, Food, day, 3, 4),
              Transaction(<<"6">>, <<"f">>, 1, Food, InvalidDate, 3, 4),
              Transaction(<<>>, <<"g">>, 1, Food, day, 3, 4) }
        arrays == UNION {[1..k -> records] : k \in 0..2}
        Item(json, value, mistyped) ==
            [present |-> TRUE, value |-> value, json |-> json, mistyped |-> mistyped]
    IN  [arrays |-> {a \in arrays : Len(a) <= 1 \/ a[1].id = <<"3">>},
         items |-> { EmptyStorage.transactions, Item("corrupt", <<>>, {}),
                     Item("other", <<>>, {}) }
                   \cup {Item("value", a, {}) : a \in arrays}
                   \cup {Item("value", a, {1}) : a \in arrays \ { <<>> }}]

InitStored ==
    /\ searchHistory = <<>>
    /\ lastSearchPattern = <<>>
    /\ lastSearchFlags = <<"i">>
    /\ call = [op |-> "constructor", args |-> NoArgs, ret |-> NoRet,
               pre |-> [searchHistory |-> <<>>, lastSearchPattern |-> <<>>,
                        lastSearchFlags |-> <<"i">>]]
    /\ ncalls = 0
    /\ held = <<>>
    /\ transactions = <<>>
    /\ categories = DefaultCategories
    /\ budgetCap = Null
    /\ now = DateParse(Date(2025, 3, 10)) + 12
    /\ timezone = 0
    /\ \E item \in StoredInputs.items :
          localStorage = [EmptyStorage EXCEPT !.transactions = item]
    /\ last = NoLast

Load ==
    StateBudget(/\ last' = [Called("load") EXCEPT !.list = load(localStorage, now),
                                                 !.prev = Previous]
                /\ UNCHANGED <<transactions, categories, budgetCap, localStorage>>)

Save ==
    \E txs \in StoredInputs.arrays, fails \in { {}, {"transactions"} } :
        LET r == save(localStorage, txs, now, fails)
        IN  StateBudget(/\ localStorage' = r.store
                        /\ last' = [Called("save") EXCEPT
                                       !.ok = r.ok, !.list = txs, !.fails = fails]
                        /\ UNCHANGED <<transactions, categories, budgetCap>>)

SpecLoad == InitStored /\ [][Load \/ Save]_vars

\* C24: load returns, and does not raise: the empty list when the stored
\* data is missing or does not parse, and otherwise only records that pass
\* the structural checks, with a non-empty id, a description that is not
\* empty after trimming, an amount that is not negative, a non-empty
\* category and a date that parses.

C24_LoadedRecordsWellFormed ==
    last.op = "load" =>
        /\ last.ok
        /\ (~last.pre.localStorage.transactions.present
            \/ last.pre.localStorage.transactions.json = "corrupt") => last.list = <<>>
        /\ \A i \in 1..Len(last.list) :
              /\ last.list[i].id # <<>>
              /\ Trim(last.list[i].description) # <<>>
              /\ last.list[i].amount >= 0
              /\ last.list[i].category # <<>>
              /\ last.list[i].date.ok

\* C29: save followed by load is a round trip.  The load that follows a
\* successful save returns every transaction that the save wrote to the
\* store, with the field values that were written.

C29_SavedThenLoaded ==
    (last.op = "load" /\ last.prev.op = "save" /\ last.prev.ok) =>
        last.list = last.pre.localStorage.transactions.value

----------------------------------------------------------------------------
(* The handlers of the FinanceTracker that change the working set, and the *)
(* start of a session.  A handler is given the values of the form after    *)
(* parseFloat; the refresh of the user interface is not modelled.  Every   *)
(* write to localStorage succeeds.                                         *)

MaxAppCalls == 2      \* calls per behaviour of SpecApp

\* generateId(): 'txn_' + Date.now() + '_' + a random suffix, which is new
\* at every call; the model keeps the part made of the clock
generateId(time) == <<"t", "x", "n", "_">> \o NumberToString(time)

\* the ids a handler may be given: those of the working set and one that
\* no record has
AppIds == {transactions[i].id : i \in 1..Len(transactions)} \cup { <<"9">> }

SaveRequest(txs) ==
    Request("save", WorkingSet(txs, <<>>, Null), WorkingSet(txs, categories, budgetCap))

\* FinanceTracker.addTransaction(transactionData)
AppAddTransaction ==
    \E transactionData \in StateInputs.transactions :
        LET transaction == [transactionData EXCEPT !.id = generateId(now),
                                                   !.createdAt = now, !.updatedAt = now]
            r == addTransaction(transactions, transaction, now)
        IN  StateBudget(/\ transactions' = r.transactions
                        /\ localStorage' = save(localStorage, r.transactions, now, {}).store
                        /\ last' = [Called("FinanceTracker.addTransaction") EXCEPT
                                       !.ok = r.ok, !.id = transaction.id,
                                       !.tx = [has |-> Fields, tx |-> transaction],
                                       !.requests = << SaveRequest(r.transactions) >>]
                        /\ UNCHANGED <<categories, budgetCap>>)

\* FinanceTracker.updateTransaction(id, transactionData)
AppUpdateTransaction ==
    \E id \in AppIds, transactionData \in StateInputs.transactions :
        LET updatedTransaction ==
                [has |-> {"description", "amount", "category", "date", "updatedAt"},
                 tx |-> [transactionData EXCEPT !.updatedAt = now]]
            r == updateTransaction(transactions, id, updatedTransaction, now)
        IN  StateBudget(/\ transactions' = r.transactions
                        /\ localStorage' = save(localStorage, r.transactions, now, {}).store
                        /\ last' = [Called("FinanceTracker.updateTransaction") EXCEPT
                                       !.ok = r.ok, !.id = id, !.tx = updatedTransaction,
                                       !.requests = << SaveRequest(r.transactions) >>]
                        /\ UNCHANGED <<categories, budgetCap>>)

\* FinanceTracker.deleteTransaction(id)
AppDeleteTransaction ==
    \E id \in AppIds :
        LET index == FindIndex(transactions, id)
            kept == IF index = 0 THEN transactions
                    ELSE SubSeq(transactions, 1, index - 1)
                             \o SubSeq(transactions, index + 1, Len(transactions))
        IN  StateBudget(/\ transactions' = kept
                        /\ localStorage' = save(localStorage, kept, now, {}).store
                        /\ last' = [Called("FinanceTracker.deleteTransaction") EXCEPT
                                       !.ok = (index # 0), !.id = id,
                                       !.requests = << SaveRequest(kept) >>]
                        /\ UNCHANGED <<categories, budgetCap>>)

\* FinanceTracker.addCategory() with the text of the input field; ok is
\* FALSE when the handler stops before it changes anything
AppAddCategory ==
    \E value \in StateInputs.names :
        LET categoryName == Trim(value)
            ok == /\ categoryName # <<>>
                  /\ validateCategory(categoryName)
                  /\ ~\E i \in 1..Len(categories) : categories[i] = categoryName
            added == IF ok THEN Append(categories, categoryName) ELSE categories
        IN  StateBudget(/\ categories' = added
                        /\ localStorage' =
                              IF ok THEN saveCategories(localStorage, added, {}).store
                              ELSE localStorage
                        /\ last' = [Called("FinanceTracker.addCategory") EXCEPT
                                       !.ok = ok, !.name = value,
                                       !.requests =
                                           IF ok
                                           THEN << Request("saveCategories",
                                                       WorkingSet(<<>>, added, Null),
                                                       WorkingSet(transactions, added,
                                                                  budgetCap)) >>
                                           ELSE <<>>]
                        /\ UNCHANGED <<transactions, budgetCap>>)

\* FinanceTracker.setBudget() with the number parsed from the input field,
\* Undefined standing for NaN
SetBudget ==
    \E budget \in { Undefined, Num(-1), Num(0), Num(50) } :
        LET ok == budget.t = "number" /\ budget.n >= 0
        IN  StateBudget(/\ budgetCap' = IF ok THEN budget ELSE budgetCap
                        /\ localStorage' =
                              IF ok THEN saveBudgetCap(localStorage, budget, {}).store
                              ELSE localStorage
                        /\ last' = [Called("setBudget") EXCEPT
                                       !.ok = ok,
                                       !.requests =
                                           IF ok
                                           THEN << Request("saveBudgetCap",
                                                       WorkingSet(<<>>, <<>>, budget),
                                                       WorkingSet(transactions, categories,
                                                                  budget)) >>
                                           ELSE <<>>]
                        /\ UNCHANGED <<transactions, categories>>)

\* FinanceTracker.clearAllData() when the user confirms: state.clearAll(),
\* then storage.clear(), which removes the four items and writes the
\* default categories and the default settings
ClearAllData ==
    LET removed == EmptyStorage
        s1 == saveCategories(removed, DefaultCategories, {}).store
        s2 == saveSettings(s1, DefaultSettings, {}).store
    IN  StateBudget(/\ transactions' = <<>>
                    /\ categories' = DefaultCategories
                    /\ budgetCap' = Null
                    /\ localStorage' = s2
                    /\ last' = [Called("clearAllData") EXCEPT
                                   !.requests =
                                       << Request("clear",
                                              WorkingSet(<<>>, DefaultCategories, Null),
                                              WorkingSet(<<>>, DefaultCategories, Null)) >>])

\* a new session on the same localStorage: new FinanceTracker() and init().
\* loadData() reads the transactions; loadSettings() reads
\* storage.loadSettings().budgetCap, and the settings that saveSettings
\* writes (validateSettings) have no budgetCap; storage.loadSettings()
\* writes the default settings when the item is missing.  Nothing calls
\* loadCategories() or loadBudgetCap().
AppInit ==
    StateBudget(/\ transactions' = load(localStorage, now)
                /\ categories' = DefaultCategories
                /\ budgetCap' = Null
                /\ localStorage' =
                      IF localStorage.settings.present THEN localStorage
                      ELSE saveSettings(localStorage, DefaultSettings, {}).store
                /\ last' = [Called("init") EXCEPT !.prev = Previous])

NextApp ==
    /\ ncalls < MaxAppCalls
    /\ \/ AppAddTransaction \/ AppUpdateTransaction \/ AppDeleteTransaction
       \/ AppAddCategory \/ AppRemoveCategory \/ SetBudget
       \/ ImportData \/ ClearAllData \/ AppInit

SpecApp == Init /\ [][NextApp]_vars

\* whether a request of the last call carried the value of a part of the
\* working set, by one of the methods that write that part
Carried(part, methods, value) ==
    \E i \in 1..Len(last.requests) :
        /\ last.requests[i].method \in methods
        /\ last.requests[i].data[part] = value

\* whether every request of the last call for a part was made when the part
\* had the given value in memory
RequestedAfter(part, methods, value) ==
    \A i \in 1..Len(last.requests) :
        last.requests[i].method \in methods => last.requests[i].memory[part] = value

\* C26: every handler of the application that changes the working set (a
\* transaction added, updated or deleted, a category added or removed, the
\* budget set, an import, clear all) requests, after the change in memory
\* and before it ends, a save that carries the data as it is in memory
\* after the change; no save is requested before the change.

C26_SaveFollowsMutation ==
    last.op \in {"FinanceTracker.addTransaction", "FinanceTracker.updateTransaction",
                 "FinanceTracker.deleteTransaction", "FinanceTracker.addCategory",
                 "FinanceTracker.removeCategory", "setBudget", "importData",
                 "clearAllData"} =>
        /\ transactions # last.pre.transactions =>
              /\ Carried("transactions", {"save", "clear"}, transactions)
              /\ RequestedAfter("transactions", {"save", "clear"}, transactions)
        /\ categories # last.pre.categories =>
              /\ Carried("categories", {"saveCategories", "clear"}, categories)
              /\ RequestedAfter("categories", {"saveCategories", "clear"}, categories)
        /\ budgetCap # last.pre.budgetCap =>
              /\ Carried("budgetCap", {"saveBudgetCap", "clear"}, budgetCap)
              /\ RequestedAfter("budgetCap", {"saveBudgetCap", "clear"}, budgetCap)

\* C30: data saved in one session is in the working set of the next.  When
\* the application is initialized again from the same store after a
\* successful setBudget(c), the budget cap of the working set is c; after
\* a successful addCategory(n), the category set contains n.

C30_SavedDataInNextSession ==
    last.op = "init" =>
        /\ (last.prev.op = "setBudget" /\ last.prev.ok) =>
              budgetCap = last.pre.budgetCap
        /\ (last.prev.op = "FinanceTracker.addCategory" /\ last.prev.ok) =>
              \E i \in 1..Len(categories) :
                  categories[i] = last.pre.categories[Len(last.pre.categories)]

----------------------------------------------------------------------------
(* Further properties of the SearchManager and of the highlighters *)

\* C25: whether searchTransactions keeps a record depends on that record
\* and on the compiled pattern only, not on the records and fields tested
\* before it: in every list returned, a record of the input is kept exactly
\* when the pattern matches one of its own fields, also when the matcher is
\* global or sticky.

C25_KeptByItselfAlone ==
    (IsSearch /\ ~BlankQuery(call.args.pattern) /\ call.ret.kind = "list") =>
        \A i \in 1..Len(call.args.transactions) :
            (\E j \in 1..Len(call.ret.list) : call.ret.list[j] = call.args.transactions[i])
                <=> RecordMatches(call.ret.regex, call.args.transactions[i])

C25_KeptAfterOtherRecords ==
    /\ IsSearch
    /\ call.ret.kind = "list"
    /\ HasFlag(call.ret.regex, "g")
    /\ Len(call.args.transactions) = 3
    /\ call.ret.list = <<call.args.transactions[1], call.args.transactions[3]>>

\* C27: the history entry recorded by a successful search describes the
\* matcher that was used: its pattern and its flags are the canonical
\* pattern and flags the query was compiled with, also for a query that is
\* self-delimited with flags of its own or has whitespace around it.

C27_HistoryDescribesMatcher ==
    Recorded =>
        /\ Head(searchHistory).pattern = lastSearchPattern
        /\ Head(searchHistory).flags = lastSearchFlags

\* the contents of the <mark> elements of a highlighted text
MarkedSpans(html) ==
    {SubSeq(html, i + Len(MarkOpen), j - 1) :
        <<i, j>> \in {ij \in (1..Len(html)) \X (1..Len(html)) :
                        /\ ij[1] < ij[2]
                        /\ StartsAt(html, ij[1], MarkOpen)
                        /\ StartsAt(html, ij[2], MarkClose)
                        /\ \A k \in (ij[1] + 1)..(ij[2] - 1) : ~StartsAt(html, k, MarkClose)}}

\* C28: the highlighters and the field matcher agree.  For a compiled
\* matcher and a string that is not empty, highlightMatches wraps at least one span in <mark>
\* exactly when testPattern reports a match on the same text, and every
\* wrapped span is the escaped form of a part of the text that the pattern
\* matches.

C28_HighlightAgreesWithTest ==
    (/\ call.op \in {"highlightMatches", "uiHighlightMatches"}
     /\ call.args.regex.ok
     /\ call.args.text.t = "string"
     /\ call.args.text.s # <<>>) =>
        /\ MarkedSpans(call.ret.html) # {}
              <=> testPattern(call.args.regex, call.args.text, call.args.lastIndex).found
        /\ \A span \in MarkedSpans(call.ret.html) :
              \E p \in 0..Len(call.args.text.s) :
                  /\ MatchAt(call.args.regex, call.args.text.s, p)
                  /\ span = EscapeSeq(SubSeq(call.args.text.s, p + 1,
                                             p + Len(call.args.regex.source)))

====
